---------------------------- MODULE Spec2Model ----------------------------
(***************************************************************************)
(* Toddler Learning App: the repeat-then-advance progression of the two    *)
(* engines of the repository.                                              *)
(*                                                                         *)
(*   - the module-keyed engine, src/src/learning_engine.py, driven through *)
(*     a ConfigLoader (src/src/config_loader.py) and a SessionStateManager *)
(*     (src/src/session_state.py);                                         *)
(*   - the flat-list engine, src/app/engine/learning_engine.py, with its   *)
(*     immutable-style SessionState (src/app/engine/session_state.py).     *)
(*                                                                         *)
(* The two engines belong to two separate programs (src/main.py and        *)
(* src/app/main.py); a behaviour of the model is a run of one of them,     *)
(* chosen in Init.                                                         *)
(***************************************************************************)
EXTENDS Integers, Sequences, FiniteSets, TLC

VARIABLES
    program,            \* "keyed" (src/main.py) or "flat" (src/app/main.py)
    config,             \* the configuration the program is given
    config_loader,      \* ConfigLoader instance, None until loaded
    current_session,    \* SessionStateManager._current_session
    current_module,     \* LearningEngine._current_module (module-keyed)
    engine,             \* the flat-list LearningEngine, None until built
    result,             \* what the last operation returned or raised
    calls,              \* history: handle_interaction calls since the
                        \*   SessionState object was created
    since_reset,        \* history: handle_interaction calls since the
                        \*   progression was last put at its beginning
    before,             \* history: the engine's fields as the last
                        \*   operation found them
    arg,                \* history: the argument of the last operation
    app,                \* the application object of run(): its position
                        \*   in run(), its flags and what happened to it
    session_file        \* the dictionary in the saved session file, None
                        \*   when there is no file

vars == <<program, config, config_loader, current_session, current_module,
          engine, result, calls, since_reset, before, arg, app, session_file>>

---------------------------------------------------------------------------
(* Bounds of the model.                                                    *)

MaxItems == 3
MaxRepeat == 3
MaxCalls == 10
MaxIndex == 7
MaxTime == 1

MaxClicks == 2

(* Program constants.                                                      *)

DefaultModuleRepeat == 1
DefaultEngineRepeat == 3

---------------------------------------------------------------------------
(* Python values.                                                          *)

None == [kind |-> "None"]

Return(op, v) == [op |-> op, raised |-> "", value |-> v]

Raise(op, e) == [op |-> op, raised |-> e, value |-> None]

\* The dictionary {}.
EmptyDict == [empty |-> TRUE]

Min(a, b) == IF a < b THEN a ELSE b

---------------------------------------------------------------------------
(* Configuration inputs.                                                   *)

ColorNames == <<"Red", "Blue", "Green", "Yellow", "Orange", "Purple">>

AnimalNames == <<"Cat", "Dog">>

ItemDicts(names, n) == [i \in 1..n |-> [name |-> names[i], color |-> i]]

\* One entry of the `modules` mapping.  has_repeat_count is FALSE when the
\* entry carries no repeat_count key.
ModuleConfig(name, names, n, has_r, r) ==
    [name |-> name, items |-> ItemDicts(names, n),
     has_repeat_count |-> has_r, repeat_count |-> IF has_r THEN r ELSE 0]

ColorsConfigs ==
    { ModuleConfig("colors", ColorNames, n, TRUE, r) :
          n \in 0..MaxItems, r \in (0 - 1)..MaxRepeat }
    \cup { ModuleConfig("colors", ColorNames, n, FALSE, 0) : n \in 0..MaxItems }

AnimalsConfigs ==
    { ModuleConfig("animals", AnimalNames, 2, TRUE, 2),
      ModuleConfig("animals", AnimalNames, 0, TRUE, 2),
      ModuleConfig("animals", AnimalNames, 2, TRUE, 0) }

ModuleNames == {"colors", "animals"}

\* root: "missing" (no such file), "empty" (the file parses to nothing) or
\* "mapping"; modules in the order of the mapping; default_module "" when
\* the settings carry none.
KeyedConfigs ==
    { [root |-> "missing", modules |-> <<>>, default_module |-> ""],
      [root |-> "empty", modules |-> <<>>, default_module |-> ""] }
    \cup { [root |-> "mapping", modules |-> ms, default_module |-> d] :
             ms \in {<<>>} \cup { <<c>> : c \in ColorsConfigs }
                      \cup { <<c, a>> : c \in ColorsConfigs, a \in AnimalsConfigs },
             d \in {""} \cup ModuleNames }

\* The flat-list engine's constructor arguments.
FlatConfigs ==
    { [items |-> ItemDicts(ColorNames, n), has_repeat_count |-> TRUE,
       repeat_count |-> r] : n \in 0..MaxItems, r \in (0 - 1)..MaxRepeat }
    \cup { [items |-> ItemDicts(ColorNames, n), has_repeat_count |-> FALSE,
            repeat_count |-> 0] : n \in 0..MaxItems }

---------------------------------------------------------------------------
(* src/src/config_loader.py                                                *)

\* Mutant: a repeat count of 0 passes the check.
LearningModule_AllowsZeroRepeat(name, cfg) ==
    LET repeat_count == IF cfg.has_repeat_count THEN cfg.repeat_count
                        ELSE DefaultModuleRepeat
        items == cfg.items
    IN  IF Len(items) = 0 THEN Raise("LearningModule", "ConfigurationError")
        ELSE IF repeat_count < 0 THEN Raise("LearningModule", "ConfigurationError")
        ELSE Return("LearningModule",
                    [name |-> name, repeat_count |-> repeat_count, items |-> items])

\* LearningModule.__init__: the module, or ConfigurationError.
LearningModule(name, cfg) ==
    LET repeat_count == IF cfg.has_repeat_count THEN cfg.repeat_count
                        ELSE DefaultModuleRepeat
        items == cfg.items
    IN  IF Len(items) = 0 THEN Raise("LearningModule", "ConfigurationError")
        ELSE IF repeat_count < 1 THEN Raise("LearningModule", "ConfigurationError")
        ELSE Return("LearningModule",
                    [name |-> name, repeat_count |-> repeat_count, items |-> items])

\* Mutant: an index past the end is clamped to the last item.
get_item_Clamped(module, index) ==
    module.items[Min(index, Len(module.items) - 1) + 1]

get_item(module, index) == module.items[(index % Len(module.items)) + 1]

\* LearningModule.get_item as a call of its own: the item, or
\* ConfigurationError on a module without items.
LearningModule_get_item(module, index) ==
    IF Len(module.items) = 0 THEN Raise("get_item", "ConfigurationError")
    ELSE Return("get_item", get_item(module, index))

get_item_count(module) == Len(module.items)

\* ConfigLoader.__init__ / _load_config: the loader, or ConfigurationError.
load_config(cfg) ==
    IF cfg.root = "missing" THEN Raise("ConfigLoader", "ConfigurationError")
    ELSE IF cfg.root = "empty" THEN Raise("ConfigLoader", "ConfigurationError")
    ELSE IF Len(cfg.modules) = 0 THEN Raise("ConfigLoader", "ConfigurationError")
    ELSE LET built == [i \in 1..Len(cfg.modules) |->
                          LearningModule(cfg.modules[i].name, cfg.modules[i])]
         IN  IF \E i \in 1..Len(built) : built[i].raised # ""
             THEN Raise("ConfigLoader", "ConfigurationError")
             ELSE Return("ConfigLoader",
                         [modules |-> [i \in 1..Len(built) |-> built[i].value],
                          default_module |-> cfg.default_module])

HasModule(loader, module_name) ==
    \E i \in 1..Len(loader.modules) : loader.modules[i].name = module_name

\* Mutant: an unknown name falls back to the first module.
get_module_FallsBack(loader, module_name) ==
    IF ~HasModule(loader, module_name)
    THEN Return("get_module", loader.modules[1])
    ELSE Return("get_module",
                loader.modules[CHOOSE i \in 1..Len(loader.modules) :
                                   loader.modules[i].name = module_name])

get_module(loader, module_name) ==
    IF ~HasModule(loader, module_name)
    THEN Raise("get_module", "ConfigurationError")
    ELSE Return("get_module",
                loader.modules[CHOOSE i \in 1..Len(loader.modules) :
                                   loader.modules[i].name = module_name])

\* Mutant: the default_module setting is ignored.
get_default_module_IgnoresSetting(loader) ==
    IF Len(loader.modules) > 0
    THEN Return("get_default_module", loader.modules[1])
    ELSE Raise("get_default_module", "ConfigurationError")

get_default_module(loader) ==
    IF loader.default_module = ""
    THEN IF Len(loader.modules) > 0
         THEN Return("get_default_module", loader.modules[1])
         ELSE Raise("get_default_module", "ConfigurationError")
    ELSE get_module(loader, loader.default_module)

---------------------------------------------------------------------------
(* src/src/session_state.py                                                *)

SessionState(module_name) ==
    [module_name |-> module_name, current_item_index |-> 0,
     current_repeat_count |-> 0, total_interactions |-> 0]

\* Mutant: the interaction is not counted.
increment_interaction_Uncounted(s) == s

increment_interaction(s) == [s EXCEPT !.total_interactions = @ + 1]

increment_repeat(s) == [s EXCEPT !.current_repeat_count = @ + 1]

\* Mutant: the repeat count survives the advance.
advance_to_next_item_KeepsRepeat(s) ==
    [s EXCEPT !.current_item_index = @ + 1]

advance_to_next_item(s) ==
    [s EXCEPT !.current_item_index = @ + 1, !.current_repeat_count = 0]

reset_repeat_count(s) == [s EXCEPT !.current_repeat_count = 0]


\* SessionStateManager: _current_session is the whole of its state.
start_session(module_name) == SessionState(module_name)

has_active_session(session) == session # None

---------------------------------------------------------------------------
(* src/src/learning_engine.py: the module-keyed engine.  An operation      *)
(* takes the engine's fields and yields their new values with the result.  *)

\* Mutant: the progress counts the repeats that remain.
progress_fraction_Remaining(repeat, repeat_count) ==
    [num |-> Min(repeat_count - repeat, repeat_count), den |-> repeat_count]

\* Clamped progress (repeat + 1) / repeat_count, as a fraction.
progress_fraction(repeat, repeat_count) ==
    [num |-> Min(repeat + 1, repeat_count), den |-> repeat_count]

\* Mutant: total_items counts the items still ahead.
get_current_item_ItemsLeft(op, session, module) ==
    IF session = None THEN Raise(op, "RuntimeError")
    ELSE IF module = None THEN Raise(op, "RuntimeError")
    ELSE LET item == get_item(module, session.current_item_index)
         IN  Return(op,
                [item |-> item,
                 item_name |-> item.name,
                 item_index |-> session.current_item_index,
                 repeat_number |-> session.current_repeat_count + 1,
                 total_repeats |-> module.repeat_count,
                 progress |-> progress_fraction(session.current_repeat_count,
                                                module.repeat_count),
                 module_name |-> module.name,
                 total_items |-> get_item_count(module)
                                   - session.current_item_index])

get_current_item(op, session, module) ==
    IF session = None THEN Raise(op, "RuntimeError")
    ELSE IF module = None THEN Raise(op, "RuntimeError")
    ELSE LET item == get_item(module, session.current_item_index)
         IN  Return(op,
                [item |-> item,
                 item_name |-> item.name,
                 item_index |-> session.current_item_index,
                 repeat_number |-> session.current_repeat_count + 1,
                 total_repeats |-> module.repeat_count,
                 progress |-> progress_fraction(session.current_repeat_count,
                                                module.repeat_count),
                 module_name |-> module.name,
                 total_items |-> get_item_count(module)])

\* Mutant: looking at the current item counts as a repeat.
call_get_current_item_Counts(session, module) ==
    [session |-> IF session = None THEN session ELSE increment_repeat(session),
     module |-> module,
     result |-> get_current_item("get_current_item", session, module)]

\* A call of LearningEngine.get_current_item: the fields it leaves and
\* the value it returns.
call_get_current_item(session, module) ==
    [session |-> session, module |-> module,
     result |-> get_current_item("get_current_item", session, module)]

\* Mutant: a failed lookup clears the current module.
load_module_ClearsOnFailure(loader, module, module_name) ==
    LET found == IF module_name # "" THEN get_module(loader, module_name)
                 ELSE get_default_module(loader)
    IN  IF found.raised # "" THEN [module |-> None, raised |-> found.raised]
        ELSE [module |-> found.value, raised |-> ""]

\* The "Load module" step of start: _current_module after it, and the
\* exception that left it, if any.
load_module(loader, module, module_name) ==
    LET found == IF module_name # "" THEN get_module(loader, module_name)
                 ELSE get_default_module(loader)
    IN  IF found.raised # "" THEN [module |-> module, raised |-> found.raised]
        ELSE [module |-> found.value, raised |-> ""]

\* Mutant: an active session is kept and only renamed.
start_ReusesSession(loader, session, module, module_name) ==
    LET found == IF module_name # "" THEN get_module(loader, module_name)
                 ELSE get_default_module(loader)
    IN  IF found.raised # ""
        THEN [session |-> session, module |-> module,
              result |-> Raise("start", found.raised)]
        ELSE LET s == IF session # None
                      THEN [session EXCEPT !.module_name = found.value.name]
                      ELSE start_session(found.value.name)
             IN  [session |-> s, module |-> found.value,
                  result |-> get_current_item("start", s, found.value)]

start(loader, session, module, module_name) ==
    LET loaded == load_module(loader, module, module_name)
    IN  IF loaded.raised # ""
        THEN [session |-> session, module |-> loaded.module,
              result |-> Raise("start", loaded.raised)]
        ELSE LET s == start_session(loaded.module.name)
             IN  [session |-> s, module |-> loaded.module,
                  result |-> get_current_item("start", s, loaded.module)]

\* Mutant: the index is left past the end of the list.
wrap_around_Missing(session, total_items) == session

\* The wrap-around of handle_interaction.
wrap_around(session, total_items) ==
    IF session.current_item_index >= total_items
    THEN [session EXCEPT !.current_item_index = 0]
    ELSE session

\* Mutant: past the last item the engine stays on the last item.
advance_StaysOnLast(session, module) ==
    IF session.current_item_index + 1 >= get_item_count(module)
    THEN reset_repeat_count(session)
    ELSE advance_to_next_item(session)

\* The advance of handle_interaction, taken once the repeats are done.
advance(session, module) ==
    wrap_around(advance_to_next_item(session), get_item_count(module))

\* Mutant: the advance is taken only on the exact count.
repeats_done_ExactCount(session, module) ==
    session.current_repeat_count = module.repeat_count

repeats_done(session, module) ==
    session.current_repeat_count >= module.repeat_count

\* handle_interaction once the session and the module are known to exist.
record_interaction(session, module) ==
    LET counted == increment_repeat(increment_interaction(session))
        s == IF repeats_done(counted, module) THEN advance(counted, module)
             ELSE counted
    IN  [session |-> s,
         result |-> get_current_item("handle_interaction", s, module)]

\* Mutant: without a session the call quietly returns an empty dictionary,
\* as get_session_summary does.
handle_interaction_Unguarded(session, module) ==
    IF session = None \/ module = None
    THEN [session |-> session, result |-> Return("handle_interaction", EmptyDict)]
    ELSE record_interaction(session, module)

handle_interaction(session, module) ==
    IF session = None
    THEN [session |-> session, result |-> Raise("handle_interaction", "RuntimeError")]
    ELSE IF module = None
    THEN [session |-> session, result |-> Raise("handle_interaction", "RuntimeError")]
    ELSE record_interaction(session, module)


items_completed_of(session) ==
    IF session.current_repeat_count = 0 THEN session.current_item_index
    ELSE session.current_item_index + 1

get_session_summary(op, session) ==
    IF session = None THEN Return(op, EmptyDict)
    ELSE Return(op,
            [module |-> session.module_name,
             total_interactions |-> session.total_interactions,
             current_item_index |-> session.current_item_index,
             items_completed |-> items_completed_of(session)])

\* Mutant: reset also forgets the interactions counted so far.
reset_session_ZeroesTotal(session) ==
    [session EXCEPT !.current_item_index = 0, !.current_repeat_count = 0,
                    !.total_interactions = 0]

reset_session(session) ==
    reset_repeat_count([session EXCEPT !.current_item_index = 0])

reset_active(session, module) ==
    LET s == reset_session(session)
    IN  [session |-> s, result |-> get_current_item("reset", s, module)]

reset(session, module) ==
    IF session = None
    THEN [session |-> session, result |-> Raise("reset", "RuntimeError")]
    ELSE reset_active(session, module)

stop(session, module) ==
    [session |-> None, module |-> None,
     result |-> get_session_summary("stop", session)]

is_active(session) == has_active_session(session)

---------------------------------------------------------------------------
(* src/app/engine/session_state.py: the flat-list engine's SessionState.   *)

FlatSessionState ==
    [current_item_index |-> 0, current_repeat_count |-> 0,
     total_interactions |-> 0, items_completed |-> 0]

\* The with_ methods build a new SessionState from every field of the
\* receiver (session_start_time and metadata too, where the state carries
\* them), with the fields named here replaced.
\* Mutant: the interaction is not recorded.
with_interaction_Unrecorded(s) == s

with_interaction(s) == [s EXCEPT !.total_interactions = @ + 1]

\* Mutant: the repeat is counted as an interaction as well.
with_repeat_CountsInteraction(s) ==
    [s EXCEPT !.current_repeat_count = @ + 1, !.total_interactions = @ + 1]

with_repeat(s) == [s EXCEPT !.current_repeat_count = @ + 1]

\* Mutant: the wrap-around advance is not counted as a completed item.
with_next_item_WrapUncounted(s, new_index) ==
    [s EXCEPT !.current_item_index = new_index,
              !.current_repeat_count = 0,
              !.items_completed = IF new_index = 0 THEN @ ELSE @ + 1]

with_next_item(s, new_index) ==
    [s EXCEPT !.current_item_index = new_index,
              !.current_repeat_count = 0,
              !.items_completed = @ + 1]

---------------------------------------------------------------------------
(* src/app/engine/learning_engine.py: the flat-list engine.                *)

LearningItem_from_dict(data) ==
    [name |-> data.name, properties |-> [color |-> data.color]]

\* Mutant: a repeat count of 0 builds an engine.
FlatLearningEngine_AllowsZeroRepeat(cfg) ==
    LET repeat_count == IF cfg.has_repeat_count THEN cfg.repeat_count
                        ELSE DefaultEngineRepeat
    IN  IF Len(cfg.items) = 0 THEN Raise("LearningEngine", "ValueError")
        ELSE IF repeat_count < 0 THEN Raise("LearningEngine", "ValueError")
        ELSE Return("LearningEngine",
                [items |-> [i \in 1..Len(cfg.items) |->
                               LearningItem_from_dict(cfg.items[i])],
                 repeat_count |-> repeat_count,
                 state |-> FlatSessionState])

\* LearningEngine.__init__: the engine, or ValueError.
FlatLearningEngine(cfg) ==
    LET repeat_count == IF cfg.has_repeat_count THEN cfg.repeat_count
                        ELSE DefaultEngineRepeat
    IN  IF Len(cfg.items) = 0 THEN Raise("LearningEngine", "ValueError")
        ELSE IF repeat_count < 1 THEN Raise("LearningEngine", "ValueError")
        ELSE Return("LearningEngine",
                [items |-> [i \in 1..Len(cfg.items) |->
                               LearningItem_from_dict(cfg.items[i])],
                 repeat_count |-> repeat_count,
                 state |-> FlatSessionState])

Flat_get_current_item(e) ==
    e.items[(e.state.current_item_index % Len(e.items)) + 1]

\* Mutant: the percentage counts the repeats already done.
progress_percentage_ZeroBased(repeat, repeat_count) ==
    [num |-> repeat * 100, den |-> repeat_count]

\* (repeat + 1) / repeat_count * 100, as a fraction.
progress_percentage(repeat, repeat_count) ==
    [num |-> (repeat + 1) * 100, den |-> repeat_count]

Flat_get_progress_info(op, e) ==
    Return(op,
        [item |-> Flat_get_current_item(e),
         repeat_number |-> e.state.current_repeat_count + 1,
         total_repeats |-> e.repeat_count,
         item_index |-> e.state.current_item_index,
         total_items |-> Len(e.items),
         progress_percentage |-> progress_percentage(e.state.current_repeat_count,
                                                     e.repeat_count)])

\* Mutant: asking for the progress info counts as an interaction.
Flat_call_get_progress_info_Counts(e) ==
    [engine |-> [e EXCEPT !.state = with_interaction(e.state)],
     result |-> Flat_get_progress_info("get_progress_info", e)]

\* A call of the flat-list get_progress_info: the engine it leaves and the
\* value it returns.
Flat_call_get_progress_info(e) ==
    [engine |-> e, result |-> Flat_get_progress_info("get_progress_info", e)]

\* Mutant: the wrap-around comes one item late.
next_index_of_LateWrap(index, total_items) ==
    IF index + 1 > total_items THEN 0 ELSE index + 1

\* The index handle_interaction advances to.
next_index_of(index, total_items) ==
    IF index + 1 >= total_items THEN 0 ELSE index + 1

\* Mutant: the advance waits for one repeat more.
Flat_repeats_done_Strict(state, repeat_count) ==
    state.current_repeat_count > repeat_count

Flat_repeats_done(state, repeat_count) ==
    state.current_repeat_count >= repeat_count

Flat_handle_interaction(e) ==
    LET counted == with_repeat(with_interaction(e.state))
        s == IF Flat_repeats_done(counted, e.repeat_count)
             THEN with_next_item(counted,
                      next_index_of(counted.current_item_index, Len(e.items)))
             ELSE counted
        e2 == [e EXCEPT !.state = s]
    IN  [engine |-> e2,
         result |-> Flat_get_progress_info("handle_interaction", e2)]

Flat_get_session_summary(op, e) ==
    Return(op,
        [total_interactions |-> e.state.total_interactions,
         items_completed |-> e.state.items_completed,
         current_item_index |-> e.state.current_item_index,
         total_items |-> Len(e.items),
         repeat_count |-> e.repeat_count])

\* Mutant: reset keeps the interaction count, as the module-keyed reset does.
Flat_reset_KeepsTotal(e) ==
    [engine |-> [e EXCEPT !.state =
                    [FlatSessionState EXCEPT !.total_interactions =
                                                 e.state.total_interactions]],
     result |-> Return("reset", None)]

Flat_reset(e) ==
    [engine |-> [e EXCEPT !.state = FlatSessionState],
     result |-> Return("reset", None)]

---------------------------------------------------------------------------
(* The state machine.                                                      *)

NoResult == Return("", None)

\* The argument of an operation that takes none.
NoArg == [none |-> TRUE]

\* The fields an operation is about to act on.
Snapshot ==
    [session |-> current_session, module |-> current_module, engine |-> engine]

StartNames == {"", "colors", "animals", "nosuch"}

\* The application object before run() is called: no component exists, the
\* running flag is down.  pc is the position in run(); fault and quit_at
\* record what the environment did (an exception raised into the
\* application, the place where the user asked to quit).
NoApp ==
    [pc |-> "off", module_name |-> "", is_running |-> FALSE, ui |-> "none",
     current_item |-> None, returned |-> FALSE, exit_code |-> 0,
     fault |-> "", quit_at |-> "", shutdowns |-> 0, advance_passes |-> 0,
     welcome_clicks |-> 0]

Init ==
    /\ session_file = None
    /\ program \in {"keyed", "flat"}
    /\ config \in IF program = "keyed" THEN KeyedConfigs ELSE FlatConfigs
    /\ config_loader = None
    /\ current_session = None
    /\ current_module = None
    /\ engine = None
    /\ result = NoResult
    /\ calls = 0
    /\ since_reset = 0
    /\ before = Snapshot
    /\ arg = NoArg
    /\ app = NoApp

\* src/main.py initialize(): ConfigLoader(config_path), then the engine on it.
LoadConfig ==
    /\ program = "keyed"
    /\ before' = Snapshot
    /\ UNCHANGED app
    /\ arg' = NoArg
    /\ config_loader = None
    /\ LET r == load_config(config)
       IN  /\ config_loader' = r.value
           /\ result' = r
    /\ UNCHANGED session_file
    /\ UNCHANGED <<program, config, current_session, current_module, engine,
                   calls, since_reset>>

Start ==
    /\ program = "keyed"
    /\ before' = Snapshot
    /\ UNCHANGED app
    /\ config_loader # None
    /\ \E module_name \in StartNames :
         LET r == start(config_loader, current_session, current_module, module_name)
         IN  /\ arg' = [module_name |-> module_name]
             /\ current_session' = r.session
             /\ current_module' = r.module
             /\ result' = r.result
             /\ calls' = IF r.result.raised = "" THEN 0 ELSE calls
             /\ since_reset' = IF r.result.raised = "" THEN 0 ELSE since_reset
    /\ UNCHANGED session_file
    /\ UNCHANGED <<program, config, config_loader, engine>>

GetCurrentItem ==
    /\ program = "keyed"
    /\ before' = Snapshot
    /\ UNCHANGED app
    /\ arg' = NoArg
    /\ config_loader # None
    /\ LET r == call_get_current_item(current_session, current_module)
       IN  /\ current_session' = r.session
           /\ current_module' = r.module
           /\ result' = r.result
    /\ UNCHANGED session_file
    /\ UNCHANGED <<program, config, config_loader, engine, calls, since_reset>>

Interact ==
    /\ program = "keyed"
    /\ before' = Snapshot
    /\ UNCHANGED app
    /\ arg' = NoArg
    /\ config_loader # None
    /\ calls < MaxCalls
    /\ LET r == handle_interaction(current_session, current_module)
       IN  /\ current_session' = r.session
           /\ result' = r.result
           /\ calls' = IF r.result.raised = "" THEN calls + 1 ELSE calls
           /\ since_reset' = IF r.result.raised = "" THEN since_reset + 1
                             ELSE since_reset
    /\ UNCHANGED session_file
    /\ UNCHANGED <<program, config, config_loader, current_module, engine>>

Summary ==
    /\ program = "keyed"
    /\ before' = Snapshot
    /\ UNCHANGED app
    /\ arg' = NoArg
    /\ config_loader # None
    /\ result' = get_session_summary("get_session_summary", current_session)
    /\ UNCHANGED session_file
    /\ UNCHANGED <<program, config, config_loader, current_session,
                   current_module, engine, calls, since_reset>>

Reset ==
    /\ program = "keyed"
    /\ before' = Snapshot
    /\ UNCHANGED app
    /\ arg' = NoArg
    /\ config_loader # None
    /\ LET r == reset(current_session, current_module)
       IN  /\ current_session' = r.session
           /\ result' = r.result
           /\ since_reset' = IF r.result.raised = "" THEN 0 ELSE since_reset
    /\ UNCHANGED session_file
    /\ UNCHANGED <<program, config, config_loader, current_module, engine, calls>>

Stop ==
    /\ program = "keyed"
    /\ before' = Snapshot
    /\ UNCHANGED app
    /\ arg' = NoArg
    /\ config_loader # None
    /\ LET r == stop(current_session, current_module)
       IN  /\ current_session' = r.session
           /\ current_module' = r.module
           /\ result' = r.result
    /\ calls' = 0
    /\ since_reset' = 0
    /\ UNCHANGED session_file
    /\ UNCHANGED <<program, config, config_loader, engine>>

\* LearningEngine(items, repeat_count) of the flat-list engine.
Construct ==
    /\ program = "flat"
    /\ before' = Snapshot
    /\ UNCHANGED app
    /\ arg' = NoArg
    /\ engine = None
    /\ LET r == FlatLearningEngine(config)
       IN  /\ engine' = r.value
           /\ result' = r
    /\ UNCHANGED session_file
    /\ UNCHANGED <<program, config, config_loader, current_session,
                   current_module, calls, since_reset>>

FlatGetProgressInfo ==
    /\ program = "flat"
    /\ before' = Snapshot
    /\ UNCHANGED app
    /\ arg' = NoArg
    /\ engine # None
    /\ LET r == Flat_call_get_progress_info(engine)
       IN  /\ engine' = r.engine
           /\ result' = r.result
    /\ UNCHANGED session_file
    /\ UNCHANGED <<program, config, config_loader, current_session,
                   current_module, calls, since_reset>>

FlatInteract ==
    /\ program = "flat"
    /\ before' = Snapshot
    /\ UNCHANGED app
    /\ arg' = NoArg
    /\ engine # None
    /\ calls < MaxCalls
    /\ LET r == Flat_handle_interaction(engine)
       IN  /\ engine' = r.engine
           /\ result' = r.result
    /\ calls' = calls + 1
    /\ since_reset' = since_reset + 1
    /\ UNCHANGED session_file
    /\ UNCHANGED <<program, config, config_loader, current_session, current_module>>

FlatSummary ==
    /\ program = "flat"
    /\ before' = Snapshot
    /\ UNCHANGED app
    /\ arg' = NoArg
    /\ engine # None
    /\ result' = Flat_get_session_summary("get_session_summary", engine)
    /\ UNCHANGED session_file
    /\ UNCHANGED <<program, config, config_loader, current_session,
                   current_module, engine, calls, since_reset>>

FlatReset ==
    /\ program = "flat"
    /\ before' = Snapshot
    /\ UNCHANGED app
    /\ arg' = NoArg
    /\ engine # None
    /\ LET r == Flat_reset(engine)
       IN  /\ engine' = r.engine
           /\ result' = r.result
    /\ calls' = 0
    /\ since_reset' = 0
    /\ UNCHANGED session_file
    /\ UNCHANGED <<program, config, config_loader, current_session, current_module>>

\* The catalog's own operations, on a loaded ConfigLoader.
GetItem ==
    /\ program = "keyed"
    /\ before' = Snapshot
    /\ UNCHANGED app
    /\ config_loader # None
    /\ \E i \in 1..Len(config_loader.modules), index \in 0..MaxIndex :
         /\ arg' = [module_name |-> config_loader.modules[i].name, index |-> index]
         /\ result' = LearningModule_get_item(config_loader.modules[i], index)
    /\ UNCHANGED session_file
    /\ UNCHANGED <<program, config, config_loader, current_session,
                   current_module, engine, calls, since_reset>>

GetModule ==
    /\ program = "keyed"
    /\ before' = Snapshot
    /\ UNCHANGED app
    /\ config_loader # None
    /\ \E module_name \in StartNames \ {""} :
         /\ arg' = [module_name |-> module_name]
         /\ result' = get_module(config_loader, module_name)
    /\ UNCHANGED session_file
    /\ UNCHANGED <<program, config, config_loader, current_session,
                   current_module, engine, calls, since_reset>>

GetDefaultModule ==
    /\ program = "keyed"
    /\ before' = Snapshot
    /\ UNCHANGED app
    /\ arg' = NoArg
    /\ config_loader # None
    /\ result' = [get_default_module(config_loader)
                     EXCEPT !.op = "get_default_module"]
    /\ UNCHANGED session_file
    /\ UNCHANGED <<program, config, config_loader, current_session,
                   current_module, engine, calls, since_reset>>

Next ==
    \/ LoadConfig
    \/ Start
    \/ GetCurrentItem
    \/ Interact
    \/ Summary
    \/ Reset
    \/ Stop
    \/ Construct
    \/ FlatGetProgressInfo
    \/ FlatInteract
    \/ FlatSummary
    \/ FlatReset

Spec == Init /\ [][Next]_vars

NextCatalog ==
    \/ LoadConfig
    \/ GetItem
    \/ GetModule
    \/ GetDefaultModule

\* The catalog alone: a configuration is loaded and its modules are read.
SpecCatalog == Init /\ [][NextCatalog]_vars

---------------------------------------------------------------------------
(* src/main.py and src/app/main.py: ToddlerLearningApp.run().              *)
(* A run meets at most one exception from outside the engine             *)
(* (KeyboardInterrupt, a failing UI start, a failing render).            *)

\* The events one pass of handle_events can deliver: so many advance events
\* (left click, space, return) and a quit event or none.
Signals == [clicks : 0..MaxClicks, quit : BOOLEAN]

\* Mutant: every advance event of the pass is applied.
interaction_occurred_PerEvent(signals) == signals.clicks

\* handle_events with the callbacks of the learning loop: the number of
\* handle_interaction calls the flag interaction_occurred lets through.
interaction_occurred(signals) == IF signals.clicks > 0 THEN 1 ELSE 0

\* Mutant: the loop keeps the progress info it had before the interaction.
process_interaction_StaleFrame(session, module, n) ==
    [session |-> handle_interaction(session, module).session,
     result |-> get_current_item("handle_interaction", session, module)]

\* The calls of handle_interaction of one pass, n >= 1 of them.
RECURSIVE process_interaction(_, _, _)
process_interaction(session, module, n) ==
    IF n <= 1 THEN handle_interaction(session, module)
    ELSE process_interaction(handle_interaction(session, module).session,
                             module, n - 1)

RECURSIVE Flat_process_interaction(_, _)
Flat_process_interaction(e, n) ==
    IF n <= 1 THEN Flat_handle_interaction(e)
    ELSE Flat_process_interaction(Flat_handle_interaction(e).engine, n - 1)

\* Mutant: a keyboard interrupt is reported as an error.
run_except_AllErrors(exception) == 1

\* The except clauses of run() in src/main.py: the exit code.
run_except(exception) == IF exception = "KeyboardInterrupt" THEN 0 ELSE 1

\* The except clauses of run() in src/app/main.py: the exit code.
Flat_run_except(exception) == IF exception = "KeyboardInterrupt" THEN 0 ELSE 1

\* Mutant: the loop does not look at the termination flag.
loop_condition_Always(a) == TRUE

\* src/main.py: the condition of the while loop of _run_learning_loop.
loop_condition(a) == a.is_running /\ a.ui = "running"

\* src/app/main.py: the condition of the while loop of _run_learning_loop.
Flat_loop_condition(a) == a.is_running

\* run() returns.
Returns(a, code) == [a EXCEPT !.pc = "done", !.returned = TRUE, !.exit_code = code]

\* src/main.py shutdown(): stops an active session, shuts the UI down.
App_shutdown(a, session, module) ==
    LET stopped == IF is_active(session) THEN stop(session, module)
                   ELSE [session |-> session, module |-> module,
                         result |-> NoResult]
    IN  [app |-> [a EXCEPT !.ui = IF @ = "none" THEN "none" ELSE "shut",
                           !.shutdowns = @ + 1],
         session |-> stopped.session, module |-> stopped.module,
         result |-> stopped.result]

\* src/app/main.py shutdown(): shuts the screen down.
FlatApp_shutdown(a) ==
    [a EXCEPT !.ui = IF @ = "none" THEN "none" ELSE "shut", !.shutdowns = @ + 1]

\* The return statements of run() in src/app/main.py, each followed by the
\* shutdown() of its finally clause.
FlatApp_return(a, code) == FlatApp_shutdown(Returns(a, code))

InitApp ==
    /\ session_file = None
    /\ program \in {"keyed", "flat"}
    /\ config \in IF program = "keyed" THEN KeyedConfigs ELSE FlatConfigs
    /\ config_loader = None
    /\ current_session = None
    /\ current_module = None
    /\ engine = None
    /\ result = NoResult
    /\ calls = 0
    /\ since_reset = 0
    /\ before = Snapshot
    /\ arg = NoArg
    /\ \E module_name \in IF program = "keyed" THEN StartNames ELSE {""} :
          app = [NoApp EXCEPT !.pc = "initialize", !.module_name = module_name]

\* src/main.py: run() calls initialize(), then start() up to the welcome
\* screen.  ui_ok is FALSE when PygameUI.initialize() raises.
AppInitialize ==
    /\ program = "keyed" /\ app.pc = "initialize"
    /\ before' = Snapshot
    /\ arg' = NoArg
    /\ \E ui_ok \in BOOLEAN :
         LET r == load_config(config)
         IN  /\ config_loader' = r.value
             /\ result' = r
             /\ app' = IF r.raised # "" THEN Returns(app, 1)
                       ELSE IF ~ui_ok
                       THEN Returns([app EXCEPT !.fault = "ui_init",
                                                !.ui = "created"], 1)
                       ELSE [app EXCEPT !.pc = "welcome", !.ui = "running",
                                        !.is_running = TRUE]
    /\ UNCHANGED session_file
    /\ UNCHANGED <<program, config, current_session, current_module, engine,
                   calls, since_reset>>

\* src/main.py _wait_for_start(): one pass of handle_events.
AppWaitForStart ==
    /\ program = "keyed" /\ app.pc = "welcome"
    /\ before' = Snapshot
    /\ arg' = NoArg
    /\ \E signals \in Signals :
         app' = IF signals.clicks = 0 /\ ~signals.quit THEN app
                ELSE IF signals.quit
                THEN [app EXCEPT !.pc = "start", !.is_running = FALSE,
                                 !.quit_at = "welcome",
                                 !.welcome_clicks = signals.clicks]
                ELSE [app EXCEPT !.pc = "start",
                                 !.welcome_clicks = signals.clicks]
    /\ UNCHANGED session_file
    /\ UNCHANGED <<program, config, config_loader, current_session,
                   current_module, engine, result, calls, since_reset>>

\* src/main.py start(): learning_engine.start(module_name) after the wait.
AppStart ==
    /\ program = "keyed" /\ app.pc = "start"
    /\ before' = Snapshot
    /\ arg' = [module_name |-> app.module_name]
    /\ LET r == start(config_loader, current_session, current_module,
                      app.module_name)
       IN  /\ current_session' = r.session
           /\ current_module' = r.module
           /\ result' = r.result
           /\ app' = IF r.result.raised # ""
                     THEN Returns(app, run_except(r.result.raised))
                     ELSE [app EXCEPT !.pc = "loop",
                                      !.current_item = r.result.value]
    /\ calls' = 0
    /\ since_reset' = 0
    /\ UNCHANGED session_file
    /\ UNCHANGED <<program, config, config_loader, engine>>

\* src/main.py _run_learning_loop(): one iteration of the loop.
AppLoop ==
    /\ program = "keyed" /\ app.pc = "loop"
    /\ loop_condition(app)
    /\ before' = Snapshot
    /\ arg' = NoArg
    /\ \E signals \in Signals :
         /\ signals.clicks > 0 => calls < MaxCalls
         /\ LET n == interaction_occurred(signals)
                quit == [app EXCEPT
                           !.is_running = IF signals.quit THEN FALSE ELSE @,
                           !.quit_at = IF signals.quit THEN "loop" ELSE @,
                           !.advance_passes = IF signals.clicks > 0 THEN @ + 1
                                              ELSE @]
                r == process_interaction(current_session, current_module, n)
            IN  IF n > 0
                THEN /\ current_session' = r.session
                     /\ result' = r.result
                     /\ app' = [quit EXCEPT !.current_item = r.result.value]
                     /\ calls' = calls + n
                     /\ since_reset' = since_reset + n
                ELSE /\ app' = quit
                     /\ UNCHANGED <<current_session, result, calls, since_reset>>
    /\ UNCHANGED session_file
    /\ UNCHANGED <<program, config, config_loader, current_module, engine>>

\* src/main.py run(): the loop has ended; shutdown() and return 0.
AppLoopExit ==
    /\ program = "keyed" /\ app.pc = "loop"
    /\ ~loop_condition(app)
    /\ before' = Snapshot
    /\ arg' = NoArg
    /\ LET r == App_shutdown(app, current_session, current_module)
       IN  /\ current_session' = r.session
           /\ current_module' = r.module
           /\ result' = r.result
           /\ app' = Returns(r.app, 0)
    /\ UNCHANGED session_file
    /\ UNCHANGED <<program, config, config_loader, engine, calls, since_reset>>

\* src/main.py run(): KeyboardInterrupt anywhere inside the try block.
AppKeyboardInterrupt ==
    /\ program = "keyed" /\ app.pc \in {"initialize", "welcome", "start", "loop"}
    /\ before' = Snapshot
    /\ arg' = NoArg
    /\ LET r == App_shutdown([app EXCEPT !.fault = "KeyboardInterrupt"],
                             current_session, current_module)
       IN  /\ current_session' = r.session
           /\ current_module' = r.module
           /\ result' = r.result
           /\ app' = Returns(r.app, run_except("KeyboardInterrupt"))
    /\ UNCHANGED session_file
    /\ UNCHANGED <<program, config, config_loader, engine, calls, since_reset>>

\* src/main.py run(): a render call of the UI raises.
AppRenderFails ==
    /\ program = "keyed"
    /\ \/ app.pc = "welcome"
       \/ app.pc = "loop" /\ loop_condition(app)
    /\ before' = Snapshot
    /\ arg' = NoArg
    /\ app' = Returns([app EXCEPT !.fault = "render"], run_except("pygame.error"))
    /\ UNCHANGED session_file
    /\ UNCHANGED <<program, config, config_loader, current_session,
                   current_module, engine, result, calls, since_reset>>

\* src/app/main.py: run() calls initialize().  found is FALSE when the file
\* is missing or is no YAML, screen_ok is FALSE when the Screen fails.
FlatAppInitialize ==
    /\ program = "flat" /\ app.pc = "initialize"
    /\ before' = Snapshot
    /\ arg' = NoArg
    /\ \E found \in BOOLEAN, screen_ok \in BOOLEAN :
         LET r == FlatLearningEngine(config)
         IN  IF ~found
             THEN /\ app' = FlatApp_return([app EXCEPT !.fault = "config"], 1)
                  /\ UNCHANGED <<engine, result>>
             ELSE IF Len(config.items) = 0
             THEN /\ app' = FlatApp_return(app, 1)
                  /\ UNCHANGED <<engine, result>>
             ELSE /\ engine' = r.value
                  /\ result' = r
                  /\ app' = IF r.raised # "" THEN FlatApp_return(app, 1)
                            ELSE IF ~screen_ok
                            THEN FlatApp_return([app EXCEPT !.fault = "ui_init",
                                                            !.ui = "created"], 1)
                            ELSE [app EXCEPT !.pc = "welcome", !.ui = "running",
                                             !.is_running = TRUE]
    /\ UNCHANGED session_file
    /\ UNCHANGED <<program, config, config_loader, current_session,
                   current_module, calls, since_reset>>

\* src/app/main.py _wait_for_start(): one pass of handle_events, then the
\* test of is_running in run() and the first get_progress_info.
FlatAppWaitForStart ==
    /\ program = "flat" /\ app.pc = "welcome"
    /\ before' = Snapshot
    /\ arg' = NoArg
    /\ \E signals \in Signals :
         LET r == Flat_call_get_progress_info(engine)
         IN  IF signals.clicks = 0 /\ ~signals.quit
             THEN UNCHANGED <<app, result, engine>>
             ELSE IF signals.quit
             THEN /\ app' = FlatApp_return(
                                [app EXCEPT !.is_running = FALSE,
                                            !.quit_at = "welcome",
                                            !.welcome_clicks = signals.clicks],
                                0)
                  /\ UNCHANGED <<result, engine>>
             ELSE /\ app' = [app EXCEPT !.pc = "loop",
                                        !.current_item = r.result.value,
                                        !.welcome_clicks = signals.clicks]
                  /\ result' = r.result
                  /\ engine' = r.engine
    /\ UNCHANGED session_file
    /\ UNCHANGED <<program, config, config_loader, current_session,
                   current_module, calls, since_reset>>

\* src/app/main.py _run_learning_loop(): one iteration of the loop.
FlatAppLoop ==
    /\ program = "flat" /\ app.pc = "loop" /\ Flat_loop_condition(app)
    /\ before' = Snapshot
    /\ arg' = NoArg
    /\ \E signals \in Signals :
         /\ signals.clicks > 0 => calls < MaxCalls
         /\ LET n == interaction_occurred(signals)
                quit == [app EXCEPT
                           !.is_running = IF signals.quit THEN FALSE ELSE @,
                           !.quit_at = IF signals.quit THEN "loop" ELSE @,
                           !.advance_passes = IF signals.clicks > 0 THEN @ + 1
                                              ELSE @]
                r == Flat_process_interaction(engine, n)
            IN  IF n > 0
                THEN /\ engine' = r.engine
                     /\ result' = r.result
                     /\ app' = [quit EXCEPT !.current_item = r.result.value]
                     /\ calls' = calls + n
                     /\ since_reset' = since_reset + n
                ELSE /\ app' = quit
                     /\ UNCHANGED <<engine, result, calls, since_reset>>
    /\ UNCHANGED session_file
    /\ UNCHANGED <<program, config, config_loader, current_session, current_module>>

\* src/app/main.py run(): the loop has ended; the summary, return 0 and the
\* shutdown() of the finally clause.
FlatAppLoopExit ==
    /\ program = "flat" /\ app.pc = "loop" /\ ~Flat_loop_condition(app)
    /\ before' = Snapshot
    /\ arg' = NoArg
    /\ result' = Flat_get_session_summary("get_session_summary", engine)
    /\ app' = FlatApp_return(app, 0)
    /\ UNCHANGED session_file
    /\ UNCHANGED <<program, config, config_loader, current_session,
                   current_module, engine, calls, since_reset>>

\* src/app/main.py run(): KeyboardInterrupt anywhere inside the try block.
FlatAppKeyboardInterrupt ==
    /\ program = "flat" /\ app.pc \in {"initialize", "welcome", "loop"}
    /\ before' = Snapshot
    /\ arg' = NoArg
    /\ app' = FlatApp_return([app EXCEPT !.fault = "KeyboardInterrupt"],
                             Flat_run_except("KeyboardInterrupt"))
    /\ UNCHANGED session_file
    /\ UNCHANGED <<program, config, config_loader, current_session,
                   current_module, engine, result, calls, since_reset>>

\* src/app/main.py run(): a render call of the Screen raises.
FlatAppRenderFails ==
    /\ program = "flat"
    /\ app.pc = "welcome" \/ app.pc = "loop"
    /\ before' = Snapshot
    /\ arg' = NoArg
    /\ app' = FlatApp_return([app EXCEPT !.fault = "render"],
                             Flat_run_except("pygame.error"))
    /\ UNCHANGED session_file
    /\ UNCHANGED <<program, config, config_loader, current_session,
                   current_module, engine, result, calls, since_reset>>

NextApp ==
    \/ AppInitialize
    \/ AppWaitForStart
    \/ AppStart
    \/ AppLoop
    \/ AppLoopExit
    \/ AppKeyboardInterrupt
    \/ AppRenderFails
    \/ FlatAppInitialize
    \/ FlatAppWaitForStart
    \/ FlatAppLoop
    \/ FlatAppLoopExit
    \/ FlatAppKeyboardInterrupt
    \/ FlatAppRenderFails

---------------------------------------------------------------------------
(* The session state objects on their own: the methods of the two         *)
(* SessionState classes and of SessionStateManager, applied to states     *)
(* that carry every field of the dataclass.  (The engine specifications   *)
(* leave session_start_time and metadata out: no engine operation reads   *)
(* them except to report a duration.)                                     *)

\* The instants datetime.now() can return.
Times == 0..MaxTime

\* The SessionState objects of src/app/engine/session_state.py.
FlatStates ==
    [current_item_index : 0..MaxItems, current_repeat_count : 0..MaxRepeat,
     total_interactions : 0..MaxRepeat, items_completed : 0..MaxItems,
     session_start_time : Times, metadata : {EmptyDict}]

\* The SessionState objects of src/src/session_state.py.
KeyedStates ==
    [module_name : ModuleNames, current_item_index : 0..MaxItems,
     current_repeat_count : 0..MaxRepeat, total_interactions : 0..MaxRepeat,
     session_start_time : Times, metadata : {EmptyDict}]

\* SessionState(module_name=...) created at the instant now.
SessionStateAt(module_name, now) ==
    SessionState(module_name)
        @@ [session_start_time |-> now, metadata |-> EmptyDict]

\* An instant is a count of half seconds.  datetime.isoformat() writes the
\* seconds, and the microseconds only when they are not zero.
isoformat(t) ==
    IF t % 2 = 0 THEN [iso |-> <<t \div 2>>]
    ELSE [iso |-> <<t \div 2, "500000">>]

\* Mutant: the microseconds are not read back.
fromisoformat_WholeSeconds(text) == 2 * text.iso[1]

\* datetime.fromisoformat().
fromisoformat(text) ==
    IF Len(text.iso) = 1 THEN 2 * text.iso[1] ELSE 2 * text.iso[1] + 1

\* SessionState.to_dict(), called at the instant now.
to_dict(s, now) ==
    [module_name |-> s.module_name,
     current_item_index |-> s.current_item_index,
     current_repeat_count |-> s.current_repeat_count,
     total_interactions |-> s.total_interactions,
     session_start_time |-> isoformat(s.session_start_time),
     session_duration_seconds |-> now - s.session_start_time,
     metadata |-> s.metadata]

\* dict.get(key, default); a dictionary is a record of the keys it holds.
dict_get(data, key, default) ==
    IF key \in DOMAIN data THEN data[key] ELSE default

\* SessionState.from_dict(data), called at the instant now.
from_dict(data, now) ==
    IF "module_name" \notin DOMAIN data THEN Raise("from_dict", "KeyError")
    ELSE Return("from_dict",
            [module_name |-> data.module_name,
             current_item_index |-> dict_get(data, "current_item_index", 0),
             current_repeat_count |-> dict_get(data, "current_repeat_count", 0),
             total_interactions |-> dict_get(data, "total_interactions", 0),
             session_start_time |->
                 IF "session_start_time" \in DOMAIN data
                 THEN fromisoformat(data.session_start_time) ELSE now,
             metadata |-> dict_get(data, "metadata", EmptyDict)])

\* SessionStateManager.start_session at the instant now.
start_session_at(module_name, now) == SessionStateAt(module_name, now)

\* Mutant: the session ended stays the current one.
end_session_KeepsSession(session, now) ==
    IF session = None
    THEN [session |-> None, result |-> Return("end_session", None)]
    ELSE [session |-> session,
          result |-> Return("end_session", to_dict(session, now))]

\* SessionStateManager.end_session at the instant now.
end_session(session, now) ==
    IF session = None
    THEN [session |-> None, result |-> Return("end_session", None)]
    ELSE [session |-> None,
          result |-> Return("end_session", to_dict(session, now))]

\* SessionStateManager.load_session at the instant now, on the dictionary
\* read from the file: the current session it leaves and what it returns.
load_session(session, data, now) ==
    LET r == from_dict(data, now)
    IN  IF r.raised # ""
        THEN [session |-> session, result |-> Raise("load_session", r.raised)]
        ELSE [session |-> r.value, result |-> Return("load_session", r.value)]

\* The keys of a saved dictionary that from_dict reads into fields.
SessionKeys ==
    {"module_name", "current_item_index", "current_repeat_count",
     "total_interactions", "session_start_time"}

\* The dictionaries from_dict is given: the one of the test with any of
\* its keys left out.
FromDictInputs ==
    LET whole == [module_name |-> "colors", current_item_index |-> 2,
                  current_repeat_count |-> 1, total_interactions |-> 5,
                  session_start_time |-> isoformat(1)]
    IN  { [k \in K |-> whole[k]] : K \in SUBSET SessionKeys }

\* The arguments drawn for the methods applied to a single state object.
IsObjectInput(a) == DOMAIN a \cap {"self", "data"} # {}

InitSessionState ==
    /\ session_file = None
    /\ program \in {"keyed", "flat"}
    /\ config = None
    /\ config_loader = None
    /\ current_session = None
    /\ current_module = None
    /\ engine = None
    /\ result = NoResult
    /\ calls = 0
    /\ since_reset = 0
    /\ before = Snapshot
    /\ arg \in IF program = "flat"
               THEN [self : FlatStates, new_index : 0..MaxItems]
               ELSE {NoArg} \union [self : KeyedStates]
                            \union [data : FromDictInputs]
    /\ app = NoApp

\* A call s.with_interaction() on the receiver drawn: the receiver after
\* the call and the state returned.
WithInteraction ==
    /\ program = "flat" /\ result = NoResult
    /\ result' = Return("with_interaction",
                        [self |-> arg.self, returned |-> with_interaction(arg.self)])
    /\ UNCHANGED session_file
    /\ UNCHANGED <<program, config, config_loader, current_session, current_module,
                   engine, calls, since_reset, before, arg, app>>

WithRepeat ==
    /\ program = "flat" /\ result = NoResult
    /\ result' = Return("with_repeat",
                        [self |-> arg.self, returned |-> with_repeat(arg.self)])
    /\ UNCHANGED session_file
    /\ UNCHANGED <<program, config, config_loader, current_session, current_module,
                   engine, calls, since_reset, before, arg, app>>

WithNextItem ==
    /\ program = "flat" /\ result = NoResult
    /\ result' = Return("with_next_item",
                        [self |-> arg.self,
                         returned |-> with_next_item(arg.self, arg.new_index)])
    /\ UNCHANGED session_file
    /\ UNCHANGED <<program, config, config_loader, current_session, current_module,
                   engine, calls, since_reset, before, arg, app>>

\* SessionStateManager.start_session(module_name).
StartSession ==
    /\ program = "keyed" /\ ~IsObjectInput(arg)
    /\ before' = Snapshot
    /\ \E module_name \in ModuleNames, now \in Times :
         /\ arg' = [module_name |-> module_name]
         /\ current_session' = start_session_at(module_name, now)
         /\ result' = Return("start_session", start_session_at(module_name, now))
    /\ UNCHANGED session_file
    /\ UNCHANGED <<program, config, config_loader, current_module, engine,
                   calls, since_reset, app>>

\* SessionStateManager.end_session().
EndSession ==
    /\ program = "keyed" /\ ~IsObjectInput(arg)
    /\ before' = Snapshot
    /\ arg' = NoArg
    /\ \E now \in Times :
         /\ current_session # None => now >= current_session.session_start_time
         /\ LET r == end_session(current_session, now)
            IN  /\ current_session' = r.session
                /\ result' = r.result
    /\ UNCHANGED session_file
    /\ UNCHANGED <<program, config, config_loader, current_module, engine,
                   calls, since_reset, app>>

\* SessionStateManager.has_active_session().
HasActiveSession ==
    /\ program = "keyed" /\ ~IsObjectInput(arg)
    /\ before' = Snapshot
    /\ arg' = NoArg
    /\ result' = Return("has_active_session",
                        [bool |-> has_active_session(current_session)])
    /\ UNCHANGED session_file
    /\ UNCHANGED <<program, config, config_loader, current_session,
                   current_module, engine, calls, since_reset, app>>

\* The mutators of the current SessionState, as the engine calls them.
IncrementInteraction ==
    /\ program = "keyed" /\ ~IsObjectInput(arg)
    /\ current_session # None
    /\ current_session.total_interactions < MaxRepeat
    /\ before' = Snapshot
    /\ arg' = NoArg
    /\ current_session' = increment_interaction(current_session)
    /\ result' = Return("increment_interaction", None)
    /\ UNCHANGED session_file
    /\ UNCHANGED <<program, config, config_loader, current_module, engine,
                   calls, since_reset, app>>

IncrementRepeat ==
    /\ program = "keyed" /\ ~IsObjectInput(arg)
    /\ current_session # None
    /\ current_session.current_repeat_count < MaxRepeat
    /\ before' = Snapshot
    /\ arg' = NoArg
    /\ current_session' = increment_repeat(current_session)
    /\ result' = Return("increment_repeat", None)
    /\ UNCHANGED session_file
    /\ UNCHANGED <<program, config, config_loader, current_module, engine,
                   calls, since_reset, app>>

AdvanceToNextItem ==
    /\ program = "keyed" /\ ~IsObjectInput(arg)
    /\ current_session # None
    /\ current_session.current_item_index < MaxItems
    /\ before' = Snapshot
    /\ arg' = NoArg
    /\ current_session' = advance_to_next_item(current_session)
    /\ result' = Return("advance_to_next_item", None)
    /\ UNCHANGED session_file
    /\ UNCHANGED <<program, config, config_loader, current_module, engine,
                   calls, since_reset, app>>

\* A call s.to_dict() on the receiver drawn: the receiver after the call
\* and the dictionary returned.
ToDict ==
    /\ program = "keyed" /\ result = NoResult
    /\ "self" \in DOMAIN arg
    /\ \E now \in Times :
         /\ now >= arg.self.session_start_time
         /\ result' = Return("to_dict",
                             [self |-> arg.self, data |-> to_dict(arg.self, now)])
    /\ UNCHANGED session_file
    /\ UNCHANGED <<program, config, config_loader, current_session,
                   current_module, engine, calls, since_reset, before, arg, app>>

\* A call SessionState.from_dict(data), on the dictionary to_dict has just
\* returned or on the dictionary drawn.
FromDict ==
    /\ program = "keyed"
    /\ \/ result.op = "to_dict"
       \/ result = NoResult /\ "data" \in DOMAIN arg
    /\ \E now \in Times :
         LET data == IF result.op = "to_dict" THEN result.value.data
                     ELSE arg.data
             r == from_dict(data, now)
         IN  result' = IF r.raised # "" THEN r
                       ELSE Return("from_dict",
                                   [data |-> data, now |-> now,
                                    returned |-> r.value])
    /\ UNCHANGED session_file
    /\ UNCHANGED <<program, config, config_loader, current_session,
                   current_module, engine, calls, since_reset, before, arg, app>>

NextSessionState ==
    \/ ToDict
    \/ FromDict
    \/ WithInteraction
    \/ WithRepeat
    \/ WithNextItem
    \/ StartSession
    \/ EndSession
    \/ HasActiveSession
    \/ IncrementInteraction
    \/ IncrementRepeat
    \/ AdvanceToNextItem

SpecSessionState == InitSessionState /\ [][NextSessionState]_vars

---------------------------------------------------------------------------
(* The two engines side by side on one item list and one repeat count.    *)

\* The item lists and repeat counts both engines accept.
PairConfigs ==
    [items : { ItemDicts(ColorNames, n) : n \in 1..MaxItems },
     repeat_count : 1..MaxRepeat]

\* The configuration of the module-keyed engine with the pair's items as
\* its only module, and the constructor arguments of the flat-list engine.
KeyedOf(pair) ==
    [root |-> "mapping",
     modules |-> <<[name |-> "colors", items |-> pair.items,
                    has_repeat_count |-> TRUE,
                    repeat_count |-> pair.repeat_count]>>,
     default_module |-> ""]

FlatOf(pair) ==
    [items |-> pair.items, has_repeat_count |-> TRUE,
     repeat_count |-> pair.repeat_count]

\* The results of the same call on both engines.
Both(op, keyed, flat) == Return(op, [keyed |-> keyed.value, flat |-> flat.value])

InitPair ==
    /\ session_file = None
    /\ program = "both"
    /\ config \in PairConfigs
    /\ config_loader = None
    /\ current_session = None
    /\ current_module = None
    /\ engine = None
    /\ result = NoResult
    /\ calls = 0
    /\ since_reset = 0
    /\ before = Snapshot
    /\ arg = NoArg
    /\ app = NoApp

\* ConfigLoader and start() on one side, LearningEngine(items,
\* repeat_count) on the other.
PairStart ==
    /\ program = "both" /\ config_loader = None
    /\ before' = Snapshot
    /\ arg' = [module_name |-> ""]
    /\ LET loaded == load_config(KeyedOf(config))
           k == start(loaded.value, current_session, current_module, "")
           f == FlatLearningEngine(FlatOf(config))
       IN  /\ config_loader' = loaded.value
           /\ current_session' = k.session
           /\ current_module' = k.module
           /\ engine' = f.value
           /\ result' = Both("start", k.result,
                             Flat_get_progress_info("get_progress_info", f.value))
    /\ UNCHANGED session_file
    /\ UNCHANGED <<program, config, calls, since_reset, app>>

\* handle_interaction() on both engines.
PairInteract ==
    /\ program = "both" /\ config_loader # None
    /\ calls < MaxCalls
    /\ before' = Snapshot
    /\ arg' = NoArg
    /\ LET k == handle_interaction(current_session, current_module)
           f == Flat_handle_interaction(engine)
       IN  /\ current_session' = k.session
           /\ engine' = f.engine
           /\ result' = Both("handle_interaction", k.result, f.result)
    /\ calls' = calls + 1
    /\ since_reset' = since_reset + 1
    /\ UNCHANGED session_file
    /\ UNCHANGED <<program, config, config_loader, current_module, app>>

\* get_current_item() on one side, get_progress_info() on the other.
PairGetProgressInfo ==
    /\ program = "both" /\ config_loader # None
    /\ before' = Snapshot
    /\ arg' = NoArg
    /\ LET k == call_get_current_item(current_session, current_module)
           f == Flat_call_get_progress_info(engine)
       IN  /\ current_session' = k.session
           /\ current_module' = k.module
           /\ engine' = f.engine
           /\ result' = Both("get_progress_info", k.result, f.result)
    /\ UNCHANGED session_file
    /\ UNCHANGED <<program, config, config_loader, calls, since_reset, app>>

NextPair ==
    \/ PairStart
    \/ PairInteract
    \/ PairGetProgressInfo

SpecPair == InitPair /\ [][NextPair]_vars

---------------------------------------------------------------------------
(* The engines with SessionStateManager.load_session among the operations: *)
(* a saved session can hold any counters, in range or not.                 *)

\* The counters a session file can hold.
LoadedIndexes == (0 - 1)..(MaxItems + 1)

LoadedRepeats == (0 - 1)..(MaxRepeat + 1)

\* The dictionaries of session files: every key present, the module name
\* alone, or the module name left out.
LoadedDicts ==
    LET full == [module_name : {"colors"}, current_item_index : LoadedIndexes,
                 current_repeat_count : LoadedRepeats, total_interactions : {2},
                 session_start_time : {isoformat(1)}]
        whole == CHOOSE d \in full : TRUE
    IN  full \union { [k \in K |-> whole[k]] :
                        K \in {{"module_name"}, SessionKeys \ {"module_name"}} }

InitLoaded ==
    /\ program \in {"keyed", "flat"}
    /\ session_file \in IF program = "keyed" THEN LoadedDicts ELSE {None}
    /\ config \in IF program = "keyed" THEN { KeyedOf(p) : p \in PairConfigs }
                  ELSE { FlatOf(p) : p \in PairConfigs }
    /\ config_loader = None
    /\ current_session = None
    /\ current_module = None
    /\ engine = None
    /\ result = NoResult
    /\ calls = 0
    /\ since_reset = 0
    /\ before = Snapshot
    /\ arg = NoArg
    /\ app = NoApp

\* session_manager.load_session(filepath) on the manager the engine uses.
LoadSession ==
    /\ program = "keyed" /\ config_loader # None
    /\ before' = Snapshot
    /\ \E now \in Times :
         LET r == load_session(current_session, session_file, now)
         IN  /\ current_session' = r.session
             /\ result' = r.result
    /\ UNCHANGED session_file
    /\ UNCHANGED <<program, config, config_loader, current_module, engine,
                   calls, since_reset, arg, app>>

NextLoaded ==
    \/ LoadConfig
    \/ Start
    \/ LoadSession
    \/ Interact
    \/ GetCurrentItem
    \/ Construct
    \/ FlatInteract
    \/ FlatGetProgressInfo

SpecLoaded == InitLoaded /\ [][NextLoaded]_vars

\* One call of run() of either entry point.
SpecApp == InitApp /\ [][NextApp]_vars

\* run() keeps executing: once the loop condition fails, the statements
\* after the loop run.  (The user is free never to click or quit.)
SpecAppLive ==
    InitApp /\ [][NextApp]_vars /\ WF_vars(AppLoopExit) /\ WF_vars(FlatAppLoopExit)

---------------------------------------------------------------------------
(* What the claims speak of.                                               *)

KeyedActive ==
    program = "keyed" /\ current_session # None /\ current_module # None

FlatBuilt == program = "flat" /\ engine # None

Running == KeyedActive \/ FlatBuilt

\* N, R and the progression of whichever engine runs.
ItemCount ==
    IF program = "keyed" THEN get_item_count(current_module) ELSE Len(engine.items)

RepeatCount ==
    IF program = "keyed" THEN current_module.repeat_count ELSE engine.repeat_count

ItemIndex ==
    IF program = "keyed" THEN current_session.current_item_index
    ELSE engine.state.current_item_index

RepeatIndex ==
    IF program = "keyed" THEN current_session.current_repeat_count
    ELSE engine.state.current_repeat_count

TotalInteractions ==
    IF program = "keyed" THEN current_session.total_interactions
    ELSE engine.state.total_interactions

ItemsOf == IF program = "keyed" THEN current_module.items ELSE engine.items

\* The progress info the engine reports in the current state.
ProgressInfo ==
    IF program = "keyed"
    THEN get_current_item("get_current_item", current_session, current_module).value
    ELSE Flat_get_progress_info("get_progress_info", engine).value

\* The last operation returned progress info from handle_interaction.
Interacted == result.op = "handle_interaction" /\ result.raised = ""

\* No reset since the session state was created.
FreshStart == since_reset = calls

\* The progression pair n interactions from now.
RECURSIVE KeyedAfter(_, _, _)
KeyedAfter(session, module, n) ==
    IF n = 0 THEN session
    ELSE KeyedAfter(handle_interaction(session, module).session, module, n - 1)

RECURSIVE FlatAfter(_, _)
FlatAfter(e, n) ==
    IF n = 0 THEN e ELSE FlatAfter(Flat_handle_interaction(e).engine, n - 1)

PairAfter(n) ==
    IF program = "keyed"
    THEN LET s == KeyedAfter(current_session, current_module, n)
         IN  <<s.current_item_index, s.current_repeat_count>>
    ELSE LET e == FlatAfter(engine, n)
         IN  <<e.state.current_item_index, e.state.current_repeat_count>>

---------------------------------------------------------------------------
(* The claims.                                                             *)

C2_CountersInRange ==
    Running =>
        /\ 0 <= ItemIndex /\ ItemIndex < ItemCount
        /\ 0 <= RepeatIndex /\ RepeatIndex <= RepeatCount - 1

\* The interaction that wraps around has just returned.
C2_Witness ==
    /\ KeyedActive /\ Interacted /\ ItemCount >= 2 /\ RepeatCount >= 2
    /\ before.session.current_item_index = ItemCount - 1
    /\ before.session.current_repeat_count = RepeatCount - 1
    /\ ItemIndex = 0 /\ RepeatIndex = 0

\* C3: the progression has period N*R: N*R interactions after a start (or a
\* reset) it is back at (0, 0) and not before, and from every reachable
\* state N*R further interactions restore the same pair.
C3_Periodic ==
    Running =>
        LET period == ItemCount * RepeatCount
        IN  /\ since_reset = period => ItemIndex = 0 /\ RepeatIndex = 0
            /\ (0 < since_reset /\ since_reset < period)
                  => <<ItemIndex, RepeatIndex>> # <<0, 0>>
            /\ PairAfter(period) = <<ItemIndex, RepeatIndex>>

\* A full loop of the flat-list engine over three items repeated twice.
C3_Witness ==
    /\ FlatBuilt /\ Interacted /\ ItemCount = 3 /\ RepeatCount = 2
    /\ calls = 6 /\ ItemIndex = 0 /\ RepeatIndex = 0

\* C4: in the flat-list engine items_completed is the number of advances:
\* k interactions after the session state was created the summary reports
\* k div R, the wrap-around advance included.
C4_FlatItemsCompleted ==
    FlatBuilt =>
        /\ Flat_get_session_summary("get_session_summary", engine).value.items_completed
               = calls \div RepeatCount
        /\ engine.state.items_completed = calls \div RepeatCount

\* Two full loops: 2N items completed.
C4_Witness ==
    /\ FlatBuilt /\ result.op = "get_session_summary"
    /\ ItemCount = 2 /\ RepeatCount = 2 /\ calls = 8
    /\ result.value.items_completed = 4 /\ ItemIndex = 0

\* C5: in the module-keyed engine the summary's items_completed is the
\* number of advances since start: k div R after k interactions with no
\* reset in between, hence N after N*R interactions.
C5_KeyedItemsCompleted ==
    (KeyedActive /\ FreshStart) =>
        get_session_summary("get_session_summary", current_session).value.items_completed
            = calls \div RepeatCount

CycleOfThreeTwice ==
    << <<"Red", 2>>, <<"Blue", 1>>, <<"Blue", 2>>, <<"Green", 1>>,
       <<"Green", 2>>, <<"Red", 1>>, <<"Red", 2>> >>

WasReset == Running /\ result.op = "reset" /\ result.raised = ""

TotalBefore ==
    IF program = "keyed" THEN before.session.total_interactions
    ELSE before.engine.state.total_interactions

\* C7 as claimed: in either engine reset zeroes the index and the repeat
\* count, leaves total_interactions as it was and makes the projection for
\* item 0, repeat 1 observable.
C7_AsClaimed ==
    WasReset =>
        /\ ItemIndex = 0 /\ RepeatIndex = 0
        /\ TotalInteractions = TotalBefore
        /\ ProgressInfo.item_index = 0 /\ ProgressInfo.repeat_number = 1

\* C7, amended: reset on an active session zeroes the index and the repeat
\* count in either engine and the projection is then that of item 0,
\* repeat 1; the module-keyed engine returns that projection and leaves
\* total_interactions unchanged, the flat-list engine returns nothing and
\* zeroes total_interactions and items_completed as well.
C7_ResetEffect ==
    WasReset =>
        /\ ItemIndex = 0 /\ RepeatIndex = 0
        /\ ProgressInfo.item_index = 0 /\ ProgressInfo.repeat_number = 1
        /\ ProgressInfo.item = ItemsOf[1]
        /\ program = "keyed" =>
               /\ TotalInteractions = TotalBefore
               /\ result.value = ProgressInfo
               /\ current_session.module_name = before.session.module_name
               /\ current_module = before.module
        /\ program = "flat" =>
               /\ TotalInteractions = 0
               /\ engine.state.items_completed = 0
               /\ result.value = None

\* A module-keyed reset in the middle of the second item, three
\* interactions in.
C7_Witness ==
    /\ KeyedActive /\ WasReset
    /\ before.session.current_item_index = 1
    /\ before.session.current_repeat_count = 1
    /\ current_session.total_interactions = 3

\* C8: reset of the flat-list engine puts it back in its initial state:
\* index 0, repeat count 0, no interactions, first item current.
C8_FlatResetInitial ==
    (FlatBuilt /\ result.op = "reset") =>
        /\ engine.state.current_item_index = 0
        /\ engine.state.current_repeat_count = 0
        /\ engine.state.total_interactions = 0
        /\ Flat_get_current_item(engine) = engine.items[1]
        /\ engine = FlatLearningEngine(config).value

\* A reset after three interactions, the second item current.
C8_Witness ==
    /\ FlatBuilt /\ result.op = "reset"
    /\ before.engine.state.total_interactions = 3
    /\ before.engine.state.current_item_index = 1

NeedsSession == {"handle_interaction", "get_current_item", "reset"}

\* C9: with no active session handle_interaction, get_current_item and
\* reset of the module-keyed engine raise RuntimeError and leave the engine
\* as it was, without a session.
C9_NoSessionRaises ==
    (program = "keyed" /\ result.op \in NeedsSession /\ before.session = None) =>
        /\ result.raised = "RuntimeError"
        /\ current_session = None
        /\ current_module = before.module
        /\ ~is_active(current_session)

\* handle_interaction after stop (or before any start) has raised.
C9_Witness ==
    /\ program = "keyed" /\ config_loader # None
    /\ result.op = "handle_interaction" /\ before.session = None
    /\ result.raised = "RuntimeError" /\ current_session = None

\* What the claim calls an invalid configuration.
InvalidConfig(cfg) ==
    \/ cfg.root \in {"missing", "empty"}
    \/ Len(cfg.modules) = 0
    \/ \E i \in 1..Len(cfg.modules) :
          \/ Len(cfg.modules[i].items) = 0
          \/ cfg.modules[i].has_repeat_count /\ cfg.modules[i].repeat_count < 1

\* C10: loading an invalid configuration raises ConfigurationError and
\* yields no loader, so no module and no session ever exist and no engine
\* operation runs; a configuration that is not invalid loads.
C10_InvalidConfigRejected ==
    program = "keyed" =>
        /\ InvalidConfig(config) =>
               /\ config_loader = None
               /\ current_session = None /\ current_module = None
               /\ result.op \in {"", "ConfigLoader"}
               /\ result.op = "ConfigLoader" => result.raised = "ConfigurationError"
        /\ (~InvalidConfig(config) /\ result.op = "ConfigLoader") =>
               result.raised = "" /\ config_loader # None

\* A sound first module followed by one with repeat_count 0: rejected.
C10_Witness ==
    /\ program = "keyed" /\ result.op = "ConfigLoader"
    /\ result.raised = "ConfigurationError" /\ config_loader = None
    /\ Len(config.modules) = 2
    /\ Len(config.modules[1].items) = 3 /\ config.modules[1].repeat_count = 2
    /\ Len(config.modules[2].items) = 2 /\ config.modules[2].repeat_count = 0

\* The loaded module a catalog operation was asked about.
ModuleNamed(module_name) ==
    config_loader.modules[CHOOSE i \in 1..Len(config_loader.modules) :
                              config_loader.modules[i].name = module_name]

\* C11: get_item(index) of a loaded module returns items[index mod len]
\* for every index >= 0 and never raises: an index within the list yields
\* its own item, one past the end wraps; with two items, index 2 yields the
\* first.
C11_GetItemWraps ==
    (program = "keyed" /\ result.op = "get_item") =>
        LET items == ModuleNamed(arg.module_name).items
            n == Len(items)
        IN  /\ result.raised = ""
            /\ result.value = items[(arg.index % n) + 1]
            /\ arg.index < n => result.value = items[arg.index + 1]
            /\ (arg.index >= n /\ arg.index < 2 * n)
                  => result.value = items[arg.index - n + 1]
            /\ (n = 2 /\ arg.index = 2) => result.value = items[1]

\* Index 2 of the two animals: the first one.
C11_Witness ==
    /\ program = "keyed" /\ result.op = "get_item" /\ result.raised = ""
    /\ arg.module_name = "animals" /\ arg.index = 2
    /\ result.value.name = "Cat"

\* The names of the modules the configuration defines, in its order.
ConfiguredNames == { config.modules[i].name : i \in 1..Len(config.modules) }

\* The name of the module the configuration makes the default one.
DefaultName ==
    IF config.default_module # "" THEN config.default_module
    ELSE config.modules[1].name

\* start() was last called, without a module name.
StartedDefault == result.op = "start" /\ arg.module_name = ""

\* C12: get_default_module returns the module named by
\* settings.default_module when that is set, otherwise the first module of
\* the configuration; start() without a name begins the session on it.
C12_DefaultModule ==
    (program = "keyed" /\ config_loader # None) =>
        LET d == get_default_module(config_loader)
        IN  /\ d.raised = "" <=> DefaultName \in ConfiguredNames
            /\ d.raised = "" =>
                  /\ d.value.name = DefaultName
                  /\ \E i \in 1..Len(config.modules) :
                        /\ config.modules[i].name = DefaultName
                        /\ d.value.items = config.modules[i].items
            /\ (StartedDefault /\ result.raised = "") =>
                  /\ current_module = d.value
                  /\ current_session.module_name = DefaultName
                  /\ result.value.item = d.value.items[1]
            /\ StartedDefault => (result.raised = "" <=> d.raised = "")

\* start() on a configuration whose default is its second module.
C12_Witness ==
    /\ program = "keyed" /\ StartedDefault /\ result.raised = ""
    /\ Len(config.modules) = 2 /\ config.default_module = "animals"
    /\ current_module.name = "animals" /\ result.value.item_name = "Cat"

\* The module name the last start() had to resolve is not a loaded one.
StartedUnknown ==
    /\ result.op = "start"
    /\ IF arg.module_name # "" THEN arg.module_name \notin ConfiguredNames
       ELSE DefaultName \notin ConfiguredNames

\* C13: a module name that is not in the loaded catalog raises
\* ConfigurationError: from get_module, from start(module_name) and from a
\* default_module setting that names no module; no other module is
\* returned or started.
C13_UnknownModuleRaises ==
    (program = "keyed" /\ config_loader # None) =>
        /\ \A name \in StartNames \ {""} :
              name \notin ConfiguredNames =>
                  /\ get_module(config_loader, name).raised = "ConfigurationError"
                  /\ get_module(config_loader, name).value = None
        /\ DefaultName \notin ConfiguredNames =>
              get_default_module(config_loader).raised = "ConfigurationError"
        /\ StartedUnknown =>
              /\ result.raised = "ConfigurationError"
              /\ current_module = before.module
              /\ current_session = before.session

\* start() with the default set to a module the configuration lacks.
C13_Witness ==
    /\ program = "keyed" /\ StartedDefault
    /\ Len(config.modules) = 1 /\ config.default_module = "animals"
    /\ result.raised = "ConfigurationError" /\ current_session = None

\* The constructor of the flat-list engine was the last operation.
Constructed == program = "flat" /\ result.op = "LearningEngine"

\* The repeat count the constructor works with.
GivenRepeatCount ==
    IF config.has_repeat_count THEN config.repeat_count ELSE DefaultEngineRepeat

\* C14: the flat-list constructor raises ValueError and leaves no engine
\* when the item list is empty or repeat_count is below 1; otherwise the
\* engine it builds is at item index 0, repeat 0.
C14_FlatConstructor ==
    Constructed =>
        IF Len(config.items) = 0 \/ GivenRepeatCount < 1
        THEN result.raised = "ValueError" /\ engine = None
        ELSE /\ result.raised = "" /\ engine # None
             /\ engine.state.current_item_index = 0
             /\ engine.state.current_repeat_count = 0
             /\ engine.repeat_count = GivenRepeatCount
             /\ Len(engine.items) = Len(config.items)

\* The constructor refused a repeat count of 0 for a non-empty list.
C14_Witness ==
    /\ Constructed /\ result.raised = "ValueError" /\ engine = None
    /\ Len(config.items) > 0 /\ config.has_repeat_count
    /\ config.repeat_count = 0

\* C15: every successful start() yields a fresh session, also over an
\* active session with progress: index, repeat and total_interactions are
\* 0, and the returned info shows item 0 at repeat_number 1.
C15_StartIsFresh ==
    (program = "keyed" /\ result.op = "start" /\ result.raised = "") =>
        /\ current_session # None
        /\ current_session.current_item_index = 0
        /\ current_session.current_repeat_count = 0
        /\ current_session.total_interactions = 0
        /\ result.value.item_index = 0
        /\ result.value.repeat_number = 1
        /\ result.value.item = current_module.items[1]

\* start() over a session that had advanced and counted interactions.
C15_Witness ==
    /\ program = "keyed" /\ result.op = "start" /\ result.raised = ""
    /\ before.session # None
    /\ before.session.total_interactions >= 3
    /\ before.session.current_item_index >= 1
    /\ before.session.current_repeat_count >= 1
    /\ current_session.total_interactions = 0

\* The last operation was a projection of the state.
Projected ==
    \/ program = "keyed" /\ result.op = "get_current_item"
    \/ program = "flat" /\ result.op = "get_progress_info"

\* What one more call of the projection would return now.
ProjectedAgain ==
    IF program = "keyed"
    THEN call_get_current_item(current_session, current_module).result
    ELSE Flat_call_get_progress_info(engine).result

\* C16: get_current_item / get_progress_info is a pure projection: the
\* call changes no field of the session or the engine, and a second call
\* right after it returns the identical value.
C16_ProjectionIsPure ==
    Projected =>
        /\ Snapshot = before
        /\ ProjectedAgain = result

\* A projection of a session in the middle of an item's repeats.
C16_Witness ==
    /\ program = "keyed" /\ result.op = "get_current_item"
    /\ result.raised = ""
    /\ result.value.item_index >= 1 /\ result.value.repeat_number >= 2
    /\ current_session.total_interactions >= 3

\* The progress value of a progress info, as a fraction, and the value
\* that stands for a complete cycle of repeats (1.0 or 100).
ProgressOf(info) ==
    IF program = "keyed" THEN info.progress ELSE info.progress_percentage

FullProgress == IF program = "keyed" THEN 1 ELSE 100

\* The fraction p is (repeat + 1) / repeat_count of the full value, is at
\* most the full value, and is the full value on the last repeat.
ProgressMatches(p, repeat, repeat_count) ==
    /\ p.den > 0
    /\ p.num * repeat_count = (repeat + 1) * FullProgress * p.den
    /\ p.num <= FullProgress * p.den
    /\ repeat = repeat_count - 1 => p.num = FullProgress * p.den

\* C17: in every state an engine reaches, the reported progress equals
\* (current_repeat_count + 1) / repeat_count (times 100 for the flat-list
\* engine), never exceeds 1.0 (100), and is exactly 1.0 (100) on the last
\* repeat of an item; the info handle_interaction returns obeys the same.
C17_ProgressValue ==
    Running =>
        /\ ProgressMatches(ProgressOf(ProgressInfo), RepeatIndex, RepeatCount)
        /\ Interacted =>
              ProgressMatches(ProgressOf(result.value),
                              result.value.repeat_number - 1,
                              result.value.total_repeats)

\* The flat-list engine on the last of three repeats reports 100.
C17_Witness ==
    /\ FlatBuilt /\ Interacted
    /\ RepeatCount = 3 /\ RepeatIndex = 2
    /\ result.value.progress_percentage = [num |-> 300, den |-> 3]

\* The progress info the engine reported before the last operation.
ProgressInfoBefore ==
    IF program = "keyed"
    THEN get_current_item("get_current_item", before.session, before.module).value
    ELSE Flat_get_progress_info("get_progress_info", before.engine).value

\* The last interaction completed the repeats of its item and advanced.
Advanced == Interacted /\ ProgressInfoBefore.repeat_number >= RepeatCount

\* Order and equality of fractions with positive denominators.
FracLeq(a, b) == a.num * b.den <= b.num * a.den

FracEq(a, b) == a.num * b.den = b.num * a.den

OneRepeat == [num |-> FullProgress, den |-> RepeatCount]

\* C18 as claimed: over an interaction the progress does not decrease
\* as long as the item shown stays the same, and right after every
\* advance it is 1/R.
C18_AsClaimed ==
    Interacted =>
        /\ result.value.item = ProgressInfoBefore.item =>
              FracLeq(ProgressOf(ProgressInfoBefore), ProgressOf(result.value))
        /\ Advanced => FracEq(ProgressOf(result.value), OneRepeat)

\* C18: over an interaction that does not advance, the item stays and
\* the progress grows by 1/R; right after every advance, the wrap-around
\* one included, it is 1/R. (With a single item the advance shows the same
\* item again, and the progress drops from 1 to 1/R.)
C18_ProgressWithinCycle ==
    Interacted =>
        /\ ~Advanced =>
              /\ result.value.item = ProgressInfoBefore.item
              /\ result.value.item_index = ProgressInfoBefore.item_index
              /\ FracLeq(ProgressOf(ProgressInfoBefore), ProgressOf(result.value))
              /\ ~FracEq(ProgressOf(ProgressInfoBefore), ProgressOf(result.value))
        /\ Advanced =>
              /\ FracEq(ProgressOf(result.value), OneRepeat)
              /\ FracEq(ProgressOf(ProgressInfo), OneRepeat)
              /\ result.value.repeat_number = 1

\* The wrap-around advance of a one-item module with three repeats.
C18_Witness ==
    /\ KeyedActive /\ Advanced
    /\ ItemCount = 1 /\ RepeatCount = 3
    /\ ProgressInfoBefore.progress = [num |-> 3, den |-> 3]
    /\ result.value.progress = [num |-> 1, den |-> 3]
    /\ result.value.item = ProgressInfoBefore.item

\* total_interactions as the last operation found it.
TotalInteractionsBefore ==
    IF program = "keyed" THEN before.session.total_interactions
    ELSE before.engine.state.total_interactions

\* C19: every handle_interaction call adds exactly 1 to
\* total_interactions, advancing or not, so the counter equals the number
\* of handle_interaction calls since the session state was created.
C19_TotalCountsCalls ==
    /\ Running => TotalInteractions = calls
    /\ (Running /\ Interacted) =>
          TotalInteractions = TotalInteractionsBefore + 1

\* A wrap-around advance after a reset of the keyed engine's position.
C19_Witness ==
    /\ KeyedActive /\ Advanced /\ ItemIndex = 0 /\ ItemCount >= 2
    /\ since_reset < calls
    /\ TotalInteractionsBefore >= 4
    /\ TotalInteractions = TotalInteractionsBefore + 1

\* The configuration or the start of the UI makes initialize() fail.
InitializationFails ==
    \/ app.fault \in {"config", "ui_init"}
    \/ program = "keyed" /\ InvalidConfig(config)
    \/ program = "flat" /\ (Len(config.items) = 0 \/ GivenRepeatCount < 1)

\* run(module_name) names a module the configuration does not define.
UnknownModuleRequested ==
    /\ program = "keyed" /\ ~InvalidConfig(config)
    /\ IF app.module_name # "" THEN app.module_name \notin ConfiguredNames
       ELSE DefaultName \notin ConfiguredNames

\* An exception other than KeyboardInterrupt escapes the session.
ExceptionEscapes == app.fault = "render" \/ UnknownModuleRequested

QuitPending == app.pc = "loop" /\ app.quit_at = "loop"

\* The interactions applied so far, whether or not a session still exists.
AppliedInteractions == calls

\* C21: a quit signal delivered in a polling pass of the learning loop
\* sets the termination flag; the next step of run() leaves the loop with
\* no further render or polling pass and applies no interaction; and
\* run() eventually returns.
C21_CooperativeQuit ==
    /\ [](QuitPending => ~app.is_running)
    /\ [][QuitPending =>
            /\ app'.pc = "done" /\ app'.returned
            /\ app'.current_item = app.current_item
            /\ AppliedInteractions' = AppliedInteractions]_vars
    /\ (QuitPending ~> app.returned)

\* run() returned 0 after a quit in the learning loop that followed
\* interactions.
C21_Witness ==
    /\ app.returned /\ app.quit_at = "loop" /\ app.exit_code = 0
    /\ app.fault = "" /\ calls >= 2 /\ ~app.is_running

\* The fields of a flat-list SessionState.
FlatFields ==
    {"current_item_index", "current_repeat_count", "total_interactions",
     "session_start_time", "items_completed", "metadata"}

\* The fields in which the state returned differs from the receiver.
ChangedFields ==
    { f \in FlatFields : result.value.returned[f] # arg.self[f] }

\* C22: with_interaction, with_repeat and with_next_item return a new
\* SessionState and leave the receiver as it was; with_interaction changes
\* only total_interactions (+1), with_repeat only current_repeat_count
\* (+1); with_next_item sets current_item_index to the given index and
\* current_repeat_count to 0, adds 1 to items_completed and leaves
\* total_interactions and session_start_time.
C22_FlatStateTransformations ==
    (program = "flat"
        /\ result.op \in {"with_interaction", "with_repeat", "with_next_item"}) =>
        LET self == arg.self
            new == result.value.returned
        IN  /\ result.value.self = self
            /\ DOMAIN new = FlatFields
            /\ result.op = "with_interaction" =>
                  /\ ChangedFields = {"total_interactions"}
                  /\ new.total_interactions = self.total_interactions + 1
            /\ result.op = "with_repeat" =>
                  /\ ChangedFields = {"current_repeat_count"}
                  /\ new.current_repeat_count = self.current_repeat_count + 1
            /\ result.op = "with_next_item" =>
                  /\ new.current_item_index = arg.new_index
                  /\ new.current_repeat_count = 0
                  /\ new.items_completed = self.items_completed + 1
                  /\ new.total_interactions = self.total_interactions
                  /\ new.session_start_time = self.session_start_time
                  /\ new.metadata = self.metadata

\* with_repeat of a state that has interactions and a start time.
C22_Witness ==
    /\ program = "flat" /\ result.op = "with_repeat"
    /\ arg.self.total_interactions = 2 /\ arg.self.session_start_time = 1
    /\ arg.self.current_repeat_count = 1
    /\ result.value.returned.current_repeat_count = 2
    /\ result.value.returned.total_interactions = 2

\* The operation of SessionStateManager that the last step performed.
ManagerOp == {"start_session", "end_session", "has_active_session",
              "increment_interaction", "increment_repeat",
              "advance_to_next_item"}

\* The counters and the name of a session, as a summary reports them.
SummaryMatches(summary, session) ==
    /\ summary.module_name = session.module_name
    /\ summary.current_item_index = session.current_item_index
    /\ summary.current_repeat_count = session.current_repeat_count
    /\ summary.total_interactions = session.total_interactions
    /\ summary.session_start_time = isoformat(session.session_start_time)

\* What holds after each operation of the manager.
C23_AfterOperation ==
    (program = "keyed" /\ result.op \in ManagerOp) =>
        /\ is_active(current_session) = has_active_session(current_session)
        /\ result.op = "start_session" =>
              /\ has_active_session(current_session)
              /\ current_session.module_name = arg.module_name
              /\ current_session.current_item_index = 0
              /\ current_session.current_repeat_count = 0
              /\ current_session.total_interactions = 0
        /\ result.op = "end_session" =>
              /\ ~has_active_session(current_session)
              /\ before.session = None => result.value = None
              /\ before.session # None =>
                    SummaryMatches(result.value, before.session)
        /\ result.op = "has_active_session" =>
              /\ result.value.bool = has_active_session(current_session)
              /\ current_session = before.session

\* C23: has_active_session() / is_active() is true exactly when a
\* start_session has happened with no later end_session: false at first,
\* made true by start_session only and false by end_session only;
\* end_session returns the summary of the session it ends, and None when
\* none is active; a start after an end yields an active session with
\* zero counters.
C23_SessionLifecycle ==
    /\ (program = "keyed" => ~has_active_session(current_session))
    /\ []C23_AfterOperation
    /\ [][program = "keyed" =>
            has_active_session(current_session') =
                IF result'.op = "start_session" THEN TRUE
                ELSE IF result'.op = "end_session" THEN FALSE
                ELSE has_active_session(current_session)]_vars
    /\ [][(program = "keyed" /\ result.op = "end_session"
              /\ result'.op = "start_session") =>
            /\ has_active_session(current_session')
            /\ current_session'.total_interactions = 0
            /\ current_session'.current_item_index = 0]_vars

\* end_session has returned the summary of a session with progress.
C23_Witness ==
    /\ program = "keyed" /\ result.op = "end_session"
    /\ before.session # None /\ before.session.total_interactions = 2
    /\ before.session.current_item_index = 1
    /\ result.value.total_interactions = 2
    /\ current_session = None

\* The same lifecycle seen through the engine (a lemma for C23, under Spec):
\* is_active() is made true by a successful start() only and false by
\* stop() only, and a start after a stop yields zero counters.
EngineLifecycle ==
    [][program = "keyed" =>
          /\ is_active(current_session') =
                IF result'.op = "start" /\ result'.raised = "" THEN TRUE
                ELSE IF result'.op = "stop" THEN FALSE
                ELSE is_active(current_session)
          /\ (result.op = "stop" /\ result'.op = "start" /\ result'.raised = "")
                => current_session' = SessionState(current_module'.name)]_vars

\* C24: stop() of the module-keyed engine returns the session summary
\* when a session is active and None when no session is active.
C24_StopReturns ==
    (program = "keyed" /\ result.op = "stop") =>
        /\ result.raised = ""
        /\ before.session # None =>
              /\ result.value.module = before.session.module_name
              /\ result.value.total_interactions
                    = before.session.total_interactions
              /\ result.value.current_item_index
                    = before.session.current_item_index
        /\ before.session = None => result.value = None

\* stop() with an active session returns that session's summary; without
\* one it returns the empty dictionary of get_session_summary.
StopReturnsEmptyDict ==
    (program = "keyed" /\ result.op = "stop") =>
        /\ before.session # None =>
              result.value = get_session_summary("stop", before.session).value
        /\ before.session = None => result.value = EmptyDict

\* C25: on the same item list and repeat count and after the same number
\* of interactions, the module-keyed and the flat-list engine report the
\* same item_index, repeat_number, total_repeats, total_items and item
\* name, and hold the same total_interactions.
C25_EnginesAgree ==
    (program = "both" /\ config_loader # None) =>
        LET k == result.value.keyed
            f == result.value.flat
        IN  /\ result.raised = ""
            /\ k.item_index = f.item_index
            /\ k.repeat_number = f.repeat_number
            /\ k.total_repeats = f.total_repeats
            /\ k.total_repeats = config.repeat_count
            /\ k.total_items = f.total_items
            /\ k.total_items = Len(config.items)
            /\ k.item_name = f.item.name
            /\ k.item.name = f.item.name
            /\ current_session.total_interactions
                  = engine.state.total_interactions
            /\ current_session.total_interactions = calls
            /\ current_session.current_item_index
                  = engine.state.current_item_index
            /\ current_session.current_repeat_count
                  = engine.state.current_repeat_count

\* Both engines one interaction into their second cycle of three items.
C25_Witness ==
    /\ program = "both" /\ result.op = "handle_interaction"
    /\ Len(config.items) = 3 /\ config.repeat_count = 2 /\ calls = 7
    /\ result.value.keyed.item_name = "Red"
    /\ result.value.flat.item.name = "Red"
    /\ result.value.flat.repeat_number = 2

\* The position handle_interaction found.
ItemIndexBefore ==
    IF program = "keyed" THEN before.session.current_item_index
    ELSE before.engine.state.current_item_index

RepeatIndexBefore ==
    IF program = "keyed" THEN before.session.current_repeat_count
    ELSE before.engine.state.current_repeat_count

\* The last interaction found the repeats of its item complete but for one.
RepeatsWereDue == Interacted /\ RepeatIndexBefore >= RepeatCount - 1

\* C26: for every state the module-keyed engine can hold, states installed
\* by load_session / from_dict included, an interaction that advances sets
\* current_item_index to (old current_item_index + 1) mod item_count.
C26_AdvanceIsModular ==
    (program = "keyed" /\ RepeatsWereDue) =>
        ItemIndex = (ItemIndexBefore + 1) % ItemCount

\* What the code does instead: the index goes up by one and is set to 0
\* when it reaches or passes the item count.
AdvanceResetsToZero ==
    (program = "keyed" /\ RepeatsWereDue) =>
        ItemIndex = IF ItemIndexBefore + 1 >= ItemCount THEN 0
                    ELSE ItemIndexBefore + 1

\* C27: an interaction that finds current_repeat_count >= repeat_count - 1,
\* counts beyond the range installed by load_session included, advances to
\* the next item and leaves current_repeat_count at 0; after any
\* interaction the counter is below repeat_count.
C27_DueRepeatsAdvance ==
    /\ RepeatsWereDue =>
         /\ RepeatIndex = 0
         /\ ItemIndex = IF ItemIndexBefore + 1 >= ItemCount THEN 0
                        ELSE ItemIndexBefore + 1
    /\ Interacted => RepeatIndex < RepeatCount

\* An interaction found a loaded count at or beyond repeat_count.
C27_Witness ==
    /\ program = "keyed"
    /\ RepeatsWereDue
    /\ RepeatIndexBefore >= RepeatCount
    /\ RepeatCount > 1

\* The interactions the engine of the running application has counted.
AppInteractions ==
    IF program = "keyed"
    THEN IF current_session = None THEN 0
         ELSE current_session.total_interactions
    ELSE IF engine = None THEN 0 ELSE engine.state.total_interactions

\* The step is one iteration of the learning loop.
LoopIteration == app.pc = "loop" /\ app'.pc = "loop"

\* C28: an iteration of the learning loop applies at most one
\* handle_interaction, however many advance events its polling pass
\* delivers, and one only if the pass held an advance event; so
\* total_interactions never exceeds the number of passes with at least one
\* advance event.
C28_OneInteractionPerPass ==
    /\ [](app.pc = "loop" => AppInteractions <= app.advance_passes)
    /\ [][LoopIteration =>
            /\ AppInteractions' <= AppInteractions + 1
            /\ AppInteractions' - AppInteractions
                 = app'.advance_passes - app.advance_passes]_vars

\* Two passes with an advance event have been applied, one interaction each.
C28_Witness ==
    /\ app.pc = "loop"
    /\ app.advance_passes = 2
    /\ AppInteractions = 2

\* The last operation of the module-keyed engine returned progress info.
ReportedProgress ==
    /\ program = "keyed"
    /\ result.op \in {"start", "handle_interaction", "get_current_item"}
    /\ result.raised = ""

\* The module of the session is one of the loaded catalog.
ModuleOfCatalog ==
    \E i \in DOMAIN config_loader.modules :
        config_loader.modules[i] = current_module

\* C29: the catalog is read-only for the module-keyed engine: no start,
\* handle_interaction, reset, get_session_summary or stop changes the loaded
\* modules (item lists, item contents, repeat_count); the module of a
\* session is one of them and stays the same for the whole session, and the
\* total_items and total_repeats of every progress info are its item count
\* and repeat_count.
C29_CatalogReadOnly ==
    /\ [][config_loader # None => config_loader' = config_loader]_vars
    /\ []((program = "keyed" /\ current_module # None) => ModuleOfCatalog)
    /\ [][(KeyedActive /\ KeyedActive' /\ result'.op # "start")
            => current_module' = current_module]_vars
    /\ []((KeyedActive /\ ReportedProgress) =>
            /\ result.value.total_items = Len(current_module.items)
            /\ result.value.total_repeats = current_module.repeat_count)

\* A session has gone round all its items and reports progress again.
C29_Witness ==
    /\ KeyedActive
    /\ Interacted
    /\ ItemCount > 1
    /\ ItemIndex = 0
    /\ calls >= ItemCount * RepeatCount

\* from_dict has been applied to the dictionary of the state drawn.
RoundTripped == result.op = "from_dict" /\ "self" \in DOMAIN arg

\* from_dict has been applied to a dictionary drawn, some keys left out.
FromPartialDict == result.op = "from_dict" /\ "data" \in DOMAIN arg

\* from_dict(s.to_dict()) has the five fields of s.
RoundTripKeepsFields ==
    RoundTripped =>
        /\ result.raised = ""
        /\ \A f \in SessionKeys : result.value.returned[f] = arg.self[f]

\* C30 as stated: the round trip keeps the five fields, and every field
\* absent from the dictionary defaults to 0.
C30_AsClaimed ==
    /\ RoundTripKeepsFields
    /\ FromPartialDict =>
         /\ result.raised = ""
         /\ \A f \in SessionKeys \ DOMAIN arg.data :
              result.value.returned[f] = 0

\* C30 amended: the round trip keeps the five fields; of the fields absent
\* from the dictionary the three counters default to 0, session_start_time
\* to the time of the call, and an absent module_name raises KeyError; the
\* fields present are taken as given.
C30_RoundTrip ==
    /\ RoundTripKeepsFields
    /\ FromPartialDict =>
         IF "module_name" \notin DOMAIN arg.data
         THEN result.raised = "KeyError"
         ELSE /\ result.raised = ""
              /\ \A f \in SessionKeys :
                   result.value.returned[f] =
                       IF f = "session_start_time"
                       THEN IF f \in DOMAIN arg.data
                            THEN fromisoformat(arg.data[f])
                            ELSE result.value.now
                       ELSE IF f \in DOMAIN arg.data THEN arg.data[f]
                       ELSE 0

\* A state whose start time has microseconds has gone through the round
\* trip.
C30_Witness ==
    /\ RoundTripped
    /\ arg.self.session_start_time % 2 = 1
    /\ arg.self.total_interactions > 0

\* C31: in the flat-list engine total_interactions ==
\* items_completed * repeat_count + current_repeat_count in every state
\* reached from construction or reset by handle_interaction calls.
C31_InteractionsAccount ==
    FlatBuilt =>
        engine.state.total_interactions
            = engine.state.items_completed * engine.repeat_count
              + engine.state.current_repeat_count

\* The engine has gone round its list and begun an item again.
C31_Witness ==
    /\ FlatBuilt
    /\ Interacted
    /\ engine.repeat_count > 1
    /\ engine.state.items_completed > Len(engine.items)
    /\ engine.state.current_repeat_count >= 1

\* The step enters the learning loop: its first frame is about to be drawn.
EntersLoop == app.pc # "loop" /\ app'.pc = "loop"

\* C32: the advance events that dismiss the welcome screen are not counted
\* as learning interactions: when the learning loop is entered
\* total_interactions is 0 and the frame to render shows item index 0 with
\* repeat_number 1, however many advance events the welcome screen got.
C32_WelcomeClickUncounted ==
    [][EntersLoop =>
         /\ AppInteractions' = 0
         /\ app'.current_item.item_index = 0
         /\ app'.current_item.repeat_number = 1]_vars

\* The loop is about to draw its first frame after a welcome screen that
\* was dismissed by a pass of several advance events.
C32_Witness ==
    /\ app.pc = "loop"
    /\ app.welcome_clicks > 1
    /\ app.advance_passes = 0
    /\ IF program = "keyed" THEN loop_condition(app)
       ELSE Flat_loop_condition(app)

\* The user asked to quit at the welcome screen.
QuitAtWelcome == app.quit_at = "welcome"

\* After a quit at the welcome screen no iteration of the learning loop
\* runs: nothing is applied to the engine and the only step out of the
\* loop position is the return of run().
WelcomeQuitSkipsLoop ==
    /\ [](QuitAtWelcome => app.advance_passes = 0 /\ AppInteractions = 0)
    /\ [][(QuitAtWelcome /\ app.pc = "loop") => app'.pc = "done"]_vars

\* C33: if the user quits at the welcome screen the body of the learning
\* loop never executes (no learning item is rendered, handle_interaction is
\* never called) and run returns 0.
C33_WelcomeQuitReturnsZero ==
    /\ WelcomeQuitSkipsLoop
    /\ []((QuitAtWelcome /\ app.returned) => app.exit_code = 0)

\* C34: in both entry points a run whose renderer was successfully
\* initialized has shut the renderer down when run returns, on every exit
\* path (user quit, keyboard interrupt, an exception after initialization).
C34_RendererShutDown == app.returned => app.ui # "running"

\* What holds: src/app/main.py shuts down on every path (finally), and
\* src/main.py on every path but the one through `except Exception`.
ShutDownUnlessErrorInKeyed ==
    (app.returned /\ ~(program = "keyed" /\ app.exit_code = 1))
        => (app.ui # "running" /\ app.shutdowns = 1)

\* The learning loop is about to render a frame.
AboutToRender ==
    /\ app.pc = "loop"
    /\ IF program = "keyed" THEN loop_condition(app) ELSE Flat_loop_condition(app)

\* C35: every frame of the learning loop shows the engine's current state:
\* the progress info handed to render_learning_item is the projection of
\* the session state at that moment, never one older than the last applied
\* interaction.
C35_FrameIsCurrent == AboutToRender => app.current_item = ProgressInfo

\* A frame is due after two applied interactions that left the first item.
C35_Witness ==
    /\ AboutToRender
    /\ app.advance_passes >= 2
    /\ app.current_item.item_index > 0

\* The last operation was a start that raised.
StartFailed ==
    program = "keyed" /\ result.op = "start" /\ result.raised # ""

\* C36: a start(module_name) that fails because the module name is unknown
\* leaves the module-keyed engine unchanged: the session (index, repeat
\* count, total_interactions) and the current module are as before the
\* call, and is_active() keeps its value.
C36_FailedStartChangesNothing ==
    StartFailed =>
        /\ current_session = before.session
        /\ current_module = before.module
        /\ is_active(current_session) = is_active(before.session)

\* A start with an unknown name has failed on a session that had advanced.
C36_Witness ==
    /\ StartFailed
    /\ arg.module_name = "nosuch"
    /\ KeyedActive
    /\ ItemIndex > 0
    /\ TotalInteractions > 1

=============================================================================
